---- MODULE Spec2Model ----
(***************************************************************************)
(* A model of the light-cpp-common concurrency runtime (namespace LCC):     *)
(*   LockedQueue<T>   include/lightc/LockedQueue.h                          *)
(*   EventDriven<T>   include/lightc/EventDriven.h                          *)
(*   ProcessBase      include/lightc/ProcessBase.h   (the actor)            *)
(*   TimerManager<T>  include/lightc/TimerManager.h                         *)
(*   Signal           include/lightc/Signal.h                               *)
(* One step of the model is one critical section (a region run under one   *)
(* mutex) or one atomic access of the C++ code.                            *)
(***************************************************************************)
EXTENDS Integers, Sequences, FiniteSets, TLC

(***************************************************************************)
(* Bounds of the model.                                                    *)
(***************************************************************************)
\* Enq calls that are accepted on the bare queue in one run.
MaxEnq == 3
\* Post calls that the actor's queue accepts in one run.
MaxPosts == 2
\* StartTimer calls in one run.
MaxTimers == 3
\* Threads that call Signal::Wait.
NumWaiters == 2
\* Threads calling Deq on a bare LockedQueue.
NumConsumers == 2

(***************************************************************************)
(* Program constants.                                                      *)
(***************************************************************************)
\* The reserved wake signal (Signal.h defines it where <csignal> does not).
SIGUSR2 == 10002
\* Two ordinary signals a handler may be registered for.
SIGTERM == 15
SIGINT == 2
\* The poll timeout ProcessBase::vRunProcess hands to Run.
RunTimeout == 100

(***************************************************************************)
(* ProcessEvent = std::variant<MessageEvent, TimerEvent, SignalEvent>.     *)
(* A value holds exactly one variant; the fields of the other two are at   *)
(* their defaults.                                                         *)
(***************************************************************************)
EventNames == {"ping", "pong"}
Payloads == {1, 2}
TimerIds == {7}
SignalNos == {SIGTERM}
\* The messages posted: two that differ only in the payload, two that differ
\* in the name.
MessageInputs == {<<"ping", 1>>, <<"ping", 2>>, <<"pong", 1>>}

MessageEvent(strEventName, spPayload) ==
    [type |-> "Message", strEventName |-> strEventName, spPayload |-> spPayload,
     unTimerId |-> 0, snSignal |-> 0]

TimerEvent(unTimerId) ==
    [type |-> "Timer", strEventName |-> "", spPayload |-> 0,
     unTimerId |-> unTimerId, snSignal |-> 0]

SignalEvent(snSignal) ==
    [type |-> "Signal", strEventName |-> "", spPayload |-> 0,
     unTimerId |-> 0, snSignal |-> snSignal]

ProcessEvent ==
    {MessageEvent(m[1], m[2]) : m \in MessageInputs}
        \cup {TimerEvent(t) : t \in TimerIds}
        \cup {SignalEvent(s) : s \in SignalNos}

\* The default-constructed ProcessEvent `msg` of EventDriven::Run.
NoEvent == [type |-> "None", strEventName |-> "", spPayload |-> 0,
            unTimerId |-> 0, snSignal |-> 0]

VARIABLES
    \* LockedQueue
    m_que,              \* std::queue<T_>: the items, front first
    m_bShutdown,        \* std::atomic_bool
    \* threads blocked in, or about to call, LockedQueue::Deq
    cpc,                \* consumer -> "idle" | "wait"
    cTimeout,           \* consumer -> the unTimeout of its Deq call
    \* history of the queue (not program state)
    accepted,           \* the items whose Enq returned true, in lock order
    returned,           \* the items Deq handed out, in lock order
    lastOp,             \* the operation that took the last step, and its result
    \* ProcessBase
    m_bRunning,             \* std::atomic_bool
    m_mapMessageHandler,    \* event name -> handler (NoHandler: no entry)
    m_mapTimerHandler,      \* timer id -> handler
    m_mapSignalHandler,     \* signal number -> handler
    m_cMessageHandlerMutex, \* the thread holding the mutex ("": free)
    m_cTimerHandlerMutex,
    m_cSignalHandlerMutex,
    \* Signal
    g_snSignal,             \* std::atomic<int>: the pending-signal slot
    \* the thread in EventDriven::Run
    rpc,                \* where it is
    msg,                \* Run's local `msg`
    fnHandler,          \* the handler it is running (NoHandler: none)
    \* a thread calling the Register functions
    regpc,              \* where it is
    regArg,             \* the arguments of the call it is in
    \* history of the actor (not program state)
    dispatched,         \* the vOnEvent calls so far: the handler invoked
                        \* (NoHandler: none) and the event it was passed
    nExceptions,        \* calls of LogOnEventException so far
    \* TimerManager
    m_mapTimers,        \* timer id -> the std::thread held (NoThread: no entry)
    m_bShutdownTimers,  \* TimerManager::m_bShutdown
    thr,                \* the backing threads: timer id, event, position
    tpc,                \* the thread calling StartTimer: where it is
    tArg,               \* the thread object StartTimer is about to insert
    \* history of the timers (not program state)
    replacedAsleep,     \* the threads StartTimer replaced while they slept
    stoppedAsleep,      \* the threads StopTimer detached while they slept
    asleepAtShutdown,   \* the threads asleep when StopAllTimers set the flag
    timerPosts,         \* the threads whose Post returned, in order
    \* Signal::Wait
    g_bWaitInUse,       \* std::atomic<bool>
    sigInstalled,       \* the signal numbers std::signal set vSignalHandler for
    wpc,                \* a thread calling Wait -> "idle" | "poll"
    wret,               \* a thread calling Wait -> what its last Wait returned
    \* history of the pending-signal slot (not program state)
    snReplaced,         \* what the slot held when Raise was last called
    \* a thread calling ProcessBase::Stop
    spc,                \* where it is
    \* WorkerThreadBase
    m_spMessageDriven,  \* whether an engine is bound (the pointer is not null)
    m_bRunningWorker,   \* WorkerThreadBase::m_bRunning
    m_thread,           \* std::thread: "none" (not joinable) | "joinable"
    dpc,                \* the driven thread: where it is in Run ("none": no
                        \* thread)
    ctl,                \* the thread calling Start and Stop: where it is
    \* history of the worker (not program state)
    nLaunched,          \* threads launched since the last Stop began
    \* the signal-watch thread, ProcessBase::vSignalWaitThread
    swpc,               \* where it is ("none": Start has not created it)
    swList,             \* its local listSignal, as a set
    swSignal,           \* its local snSignal: what its last Wait returned
    \* history of the signal-watch thread (not program state)
    swGot,              \* the values other than the wake signal its Waits
                        \* returned, in order
    swPosted,           \* the events it passed to Post, in order
    \* the lifetime of the TimerManager object
    tmAlive,            \* FALSE once ~TimerManager has run
    \* LockedQueue's lock and condition variable, where a step shows them
    m_mutexQue,         \* "", or who holds it: "deq" (a thread in Deq), "run"
    cvWaiting           \* threads blocked in m_cvQue.wait / wait_for, not notified

\* the queue and its history
qvars == <<m_que, m_bShutdown, accepted>>
\* the threads calling Deq on a bare queue
cvars == <<cpc, cTimeout, returned>>
\* the handler registries and their locks
hvars == <<m_mapMessageHandler, m_mapTimerHandler, m_mapSignalHandler,
           m_cMessageHandlerMutex, m_cTimerHandlerMutex, m_cSignalHandlerMutex>>
\* the thread in Run
rvars == <<rpc, msg, fnHandler, dispatched, nExceptions>>
\* the thread calling Register
gvars == <<regpc, regArg>>
\* the whole actor but its queue
avars == <<m_bRunning, hvars, g_snSignal, rvars, gvars>>

\* the timer manager
tvars == <<m_mapTimers, m_bShutdownTimers, thr, tpc, tArg, replacedAsleep,
           stoppedAsleep, asleepAtShutdown, timerPosts>>

\* Signal::Wait and its callers
svars == <<g_bWaitInUse, sigInstalled, wpc, wret, snReplaced>>
\* the worker thread, its driven thread and its controller
wvars == <<m_spMessageDriven, m_bRunningWorker, m_thread, dpc, ctl, nLaunched>>
\* the signal-watch thread
kvars == <<swpc, swList, swSignal, swGot, swPosted>>
\* the components beside the queue, the actor and the timers
\* object lifetimes and locks that most operations leave alone
lvars == <<m_mutexQue, cvWaiting>>
xvars == <<tmAlive, lvars>>
ovars == <<svars, spc, wvars, kvars, xvars>>

vars == <<qvars, cvars, lastOp, avars, tvars, ovars>>

Consumers == 1..NumConsumers

Op(op, ok) == [op |-> op, ok |-> ok]

(***************************************************************************)
(* LockedQueue                                                             *)
(***************************************************************************)
\* Enq, line 72: a shut-down queue refuses the item.
EnqAcceptsAlways(bShutdown) == TRUE
EnqAccepts(bShutdown) == ~bShutdown

\* Enq, lines 72-73: the queue after Enq(pcData).
EnqQue(que, bShutdown, pcData) ==
    IF EnqAccepts(bShutdown) THEN Append(que, pcData) ELSE que

\* The predicate both waits of Deq use (lines 94-96, 101-103).
WaitPredNoShutdown(que, bShutdown) == que /= <<>>
WaitPred(que, bShutdown) == que /= <<>> \/ bShutdown

\* Deq, line 106: the call fails on a timeout, or when shut down and drained.
DeqFailsOnShutdown(que, bShutdown, bReady) == ~bReady \/ bShutdown
DeqFails(que, bShutdown, bReady) == ~bReady \/ (bShutdown /\ que = <<>>)

\* Deq, line 110: the item handed out.
DeqBack(que) == que[Len(que)]
DeqFront(que) == Head(que)

\* Deq, line 111: the queue after the pop.
DeqPop(que) == Tail(que)

\* What the wait of Deq yields when it ends: wait() ends only on the predicate
\* (line 97), wait_for() ends on the predicate or on the timeout and yields the
\* predicate's value (line 101).
DeqReady(que, bShutdown, unTimeout) ==
    IF unTimeout = 0 THEN TRUE ELSE WaitPred(que, bShutdown)

\* Whether the wait of Deq can end in this state.
DeqNeverTimesOut(que, bShutdown, unTimeout) == WaitPred(que, bShutdown)
DeqCanReturn(que, bShutdown, unTimeout) ==
    unTimeout /= 0 \/ WaitPred(que, bShutdown)

InitQueue ==
    /\ m_que = <<>>
    /\ m_bShutdown = FALSE
    /\ cpc = [c \in Consumers |-> "idle"]
    /\ cTimeout = [c \in Consumers |-> 0]
    /\ accepted = <<>>
    /\ returned = <<>>
    /\ lastOp = Op("Init", TRUE)

\* bool Enq(const T_& pcData), lines 69-76: what the call does to the queue.
EnqEffect(pcData) ==
    /\ m_que' = EnqQue(m_que, m_bShutdown, pcData)
    /\ accepted' = IF EnqAccepts(m_bShutdown) THEN Append(accepted, pcData)
                   ELSE accepted
    /\ lastOp' = Op("Enq", EnqAccepts(m_bShutdown))

\* Enq called by a thread that does nothing else in the step.
Enq(pcData) ==
    /\ EnqEffect(pcData)
    /\ UNCHANGED <<m_bShutdown, cvars, avars, tvars, ovars>>

\* bool Deq(T_& pcData, uint64_t unTimeout): the call, up to its wait.
DeqCall(c, unTimeout) ==
    /\ cpc[c] = "idle"
    /\ cpc' = [cpc EXCEPT ![c] = "wait"]
    /\ cTimeout' = [cTimeout EXCEPT ![c] = unTimeout]
    /\ lastOp' = Op("DeqCall", TRUE)
    /\ UNCHANGED <<qvars, returned, avars, tvars, ovars>>

\* Deq: the wait ends and the call returns (lines 106-112, under the lock).
DeqReturn(c) ==
    /\ cpc[c] = "wait"
    /\ DeqCanReturn(m_que, m_bShutdown, cTimeout[c])
    /\ LET bReady == DeqReady(m_que, m_bShutdown, cTimeout[c])
           bFail == DeqFails(m_que, m_bShutdown, bReady)
       IN /\ m_que' = IF bFail THEN m_que ELSE DeqPop(m_que)
          /\ returned' = IF bFail THEN returned
                         ELSE Append(returned, DeqFront(m_que))
          /\ lastOp' = Op("Deq", ~bFail)
    /\ cpc' = [cpc EXCEPT ![c] = "idle"]
    /\ UNCHANGED <<m_bShutdown, cTimeout, accepted, avars, tvars, ovars>>

\* void Shutdown(): sets the flag and wakes every waiter.
Shutdown ==
    /\ m_bShutdown' = TRUE
    /\ lastOp' = Op("Shutdown", TRUE)
    /\ UNCHANGED <<m_que, accepted, cvars, avars, tvars, ovars>>

\* The items the threads of the bare queue enqueue: one of each variant.
QueueItems == {MessageEvent("ping", 1), TimerEvent(7), SignalEvent(SIGTERM)}

NextQueue ==
    \/ \E pcData \in QueueItems : Len(accepted) < MaxEnq /\ Enq(pcData)
    \/ \E c \in Consumers, unTimeout \in {0, RunTimeout} : DeqCall(c, unTimeout)
    \/ \E c \in Consumers : DeqReturn(c)
    \/ Shutdown

\* A thread in Deq keeps being scheduled: once its wait can end (it was
\* notified with the predicate true, or wait_for ran out) the call returns.
FairQueue == \A c \in Consumers : WF_vars(DeqReturn(c))

(***************************************************************************)
(* ProcessBase: the handler registries                                     *)
(***************************************************************************)
\* The distinct handler functions a caller may register.
NumHandlers == 2
Handlers == 1..NumHandlers
\* No entry in a registry; no handler running.
NoHandler == 0

\* The signal numbers a caller may pass to RegisterSignalHandler.
RegisterableSignals == SignalNos \cup {SIGINT, SIGUSR2}

\* unordered_map::emplace(key, fn), ProcessBase.h lines 134, 152, 172: inserts
\* only when the map holds no entry under the key, and otherwise leaves the
\* entry as it is.
InsertOrAssign(map, key, fn) == [map EXCEPT ![key] = fn]
Emplace(map, key, fn) ==
    IF map[key] /= NoHandler THEN map ELSE [map EXCEPT ![key] = fn]

\* RegisterSignalHandler, line 165: the reserved signal is refused.
RefusesNothing(snSignal) == FALSE
RegisterRefuses(snSignal) == snSignal = SIGUSR2

\* Signal::Raise(snSig), Signal.h lines 56-57: the slot after the call.
RaiseNothing(slot, snSig) == slot
RaiseKeepsPending(slot, snSig) == IF slot /= 0 \/ snSig = 0 THEN slot ELSE snSig
Raise(slot, snSig) == IF snSig = 0 THEN slot ELSE snSig

\* The arguments of a Register call (of the call's kind, the others default).
RegArg(fn, strEventName, unTimerId, snSignal, fnH) ==
    [fn |-> fn, strEventName |-> strEventName, unTimerId |-> unTimerId,
     snSignal |-> snSignal, fnHandler |-> fnH]
NoRegArg == RegArg("", "", 0, 0, NoHandler)

\* The process is alive: undefined behaviour has not killed it.
Alive == rpc /= "crashed"

InitActor ==
    /\ m_bRunning = TRUE
    /\ m_mapMessageHandler = [n \in EventNames |-> NoHandler]
    /\ m_mapTimerHandler = [t \in TimerIds |-> NoHandler]
    /\ m_mapSignalHandler = [s \in RegisterableSignals |-> NoHandler]
    /\ m_cMessageHandlerMutex = ""
    /\ m_cTimerHandlerMutex = ""
    /\ m_cSignalHandlerMutex = ""
    /\ g_snSignal = 0
    /\ rpc = "top"
    /\ msg = NoEvent
    /\ fnHandler = NoHandler
    /\ Alive
    /\ regpc = "idle"
    /\ regArg = NoRegArg
    /\ dispatched = <<>>
    /\ nExceptions = 0

(***************************************************************************)
(* TimerManager: its state                                                 *)
(***************************************************************************)
\* The backing threads one run creates: 1..MaxTimers, in the order created.
TimerThreads == 1..MaxTimers
\* No entry in m_mapTimers.
NoThread == 0

\* The events a caller hands to StartTimer (TimerManager is a template: any
\* event of the receiver's type).
TimerMessages == {TimerEvent(7), MessageEvent("ping", 1)}

\* A backing thread: the captures of StartTimer's lambda (lines 45-56) and
\* where the thread is. "none": not created yet; "sleep": in sleep_for;
\* "post": past the check of m_bShutdown; "remove": past Post; "done".
TimerThread(unTimerId, pcMsg, pc) ==
    [unTimerId |-> unTimerId, pcMsg |-> pcMsg, pc |-> pc]

InitTimers ==
    /\ m_mapTimers = [t \in TimerIds |-> NoThread]
    /\ m_bShutdownTimers = FALSE
    /\ thr = [th \in TimerThreads |-> TimerThread(0, NoEvent, "none")]
    /\ tpc = "idle"
    /\ tArg = NoThread
    /\ replacedAsleep = {}
    /\ stoppedAsleep = {}
    /\ asleepAtShutdown = {}
    /\ timerPosts = <<>>

(***************************************************************************)
(* Signal::Wait, ProcessBase::Stop, WorkerThreadBase: their state          *)
(***************************************************************************)
Waiters == 1..NumWaiters

\* Signal.h lines 30-31; no thread is in Wait, no handler set by std::signal.
InitSignal ==
    /\ g_bWaitInUse = FALSE
    /\ sigInstalled = {}
    /\ wpc = [w \in Waiters |-> "idle"]
    /\ wret = [w \in Waiters |-> 0]
    /\ snReplaced = 0

\* Stop has not been called.
InitStop == spc = "idle"

\* TimerManager(wpReceiver), TimerManager.h lines 26-27: the object exists.
InitLife == tmAlive = TRUE

\* LockedQueue's members m_mutexQue and m_cvQue, LockedQueue.h lines 158-159,
\* default-constructed: unlocked, nobody waiting.
InitLock == m_mutexQue = "" /\ cvWaiting = {}

\* Start has not been called: there is no signal-watch thread.
InitWatch ==
    /\ swpc = "none"
    /\ swList = {}
    /\ swSignal = 0
    /\ swGot = <<>>
    /\ swPosted = <<>>

\* WorkerThreadBase(spMessageDriven), lines 26-29: the engine handed in (a
\* null pointer when bBound is false), m_bRunning(false), no thread.
InitWorker(bBound) ==
    /\ m_spMessageDriven = bBound
    /\ m_bRunningWorker = FALSE
    /\ m_thread = "none"
    /\ dpc = "none"
    /\ ctl = "idle"
    /\ nLaunched = 0

Init ==
    InitQueue /\ InitActor /\ InitTimers /\ InitSignal /\ InitStop
        /\ InitWatch /\ InitLife /\ InitLock /\ InitWorker(TRUE)

\* The same, with a worker constructed on an engine or on a null pointer.
InitAnyWorker ==
    InitQueue /\ InitActor /\ InitTimers /\ InitSignal /\ InitStop
        /\ InitWatch /\ InitLife /\ InitLock /\ \E bBound \in BOOLEAN : InitWorker(bBound)

SpecQueue == Init /\ [][NextQueue]_vars

SpecQueueFair == SpecQueue /\ FairQueue

(***************************************************************************)
(* LockedQueue with its lock and its condition variable step by step       *)
(*                                                                         *)
(* Deq is split where other threads can run: before the lock is taken, and *)
(* while the thread is blocked in wait / wait_for with the lock released.  *)
(* Enq and Shutdown hold the lock from their first line to their return.   *)
(***************************************************************************)
\* m_cvQue.notify_one(), line 74: the sets of blocked threads it can leave.
\* It unblocks one of the threads blocked at the call, if there is one.
NotifyNobody(waiting) == {waiting}
NotifyOne(waiting) ==
    IF waiting = {} THEN {waiting} ELSE {waiting \ {c} : c \in waiting}

\* m_cvQue.notify_all(), line 141.
NotifyAll(waiting) == {}

\* Everything the queue's own steps leave alone.
NotQueue == <<avars, tvars, svars, spc, wvars, kvars, tmAlive>>

\* Enq, lines 69-76: lock, the shutdown test, push, notify_one, unlock.
CvEnq(pcData) ==
    /\ m_mutexQue = ""
    /\ EnqEffect(pcData)
    /\ cvWaiting' \in IF EnqAccepts(m_bShutdown) THEN NotifyOne(cvWaiting)
                      ELSE {cvWaiting}
    /\ UNCHANGED <<m_bShutdown, cvars, m_mutexQue, NotQueue>>

\* Shutdown, lines 137-142: lock, the flag, notify_all, unlock.
CvShutdown ==
    /\ m_mutexQue = ""
    /\ m_bShutdown' = TRUE
    /\ cvWaiting' = NotifyAll(cvWaiting)
    /\ lastOp' = Op("Shutdown", TRUE)
    /\ UNCHANGED <<m_que, accepted, cvars, m_mutexQue, NotQueue>>

\* Deq, line 89: std::unique_lock pcLock(m_mutexQue).
CvDeqLock(c, unTimeout) ==
    /\ cpc[c] = "idle"
    /\ m_mutexQue = ""
    /\ m_mutexQue' = "deq"
    /\ cpc' = [cpc EXCEPT ![c] = "locked"]
    /\ cTimeout' = [cTimeout EXCEPT ![c] = unTimeout]
    /\ lastOp' = Op("DeqCall", TRUE)
    /\ UNCHANGED <<qvars, returned, cvWaiting, NotQueue>>

\* Deq, lines 106-112 with the lock held, and the unlock at the return.
CvDeqFinish(c, bReady) ==
    LET bFail == DeqFails(m_que, m_bShutdown, bReady)
    IN /\ m_que' = IF bFail THEN m_que ELSE DeqPop(m_que)
       /\ returned' = IF bFail THEN returned
                      ELSE Append(returned, DeqFront(m_que))
       /\ lastOp' = Op("Deq", ~bFail)
       /\ cpc' = [cpc EXCEPT ![c] = "idle"]
       /\ m_mutexQue' = ""

\* Deq, lines 94-97 and 101-103, with the lock held: the predicate is tested;
\* if it holds the wait is over (bReady is true), and otherwise the thread
\* releases the lock and blocks, in one atomic step.
CvDeqTest(c) ==
    /\ cpc[c] = "locked"
    /\ IF WaitPred(m_que, m_bShutdown)
       THEN CvDeqFinish(c, TRUE) /\ UNCHANGED cvWaiting
       ELSE /\ cpc' = [cpc EXCEPT ![c] = "blocked"]
            /\ cvWaiting' = cvWaiting \cup {c}
            /\ m_mutexQue' = ""
            /\ lastOp' = Op("step", TRUE)
            /\ UNCHANGED <<m_que, returned>>
    /\ UNCHANGED <<m_bShutdown, accepted, cTimeout, NotQueue>>

\* A blocked thread that was notified takes the lock again and goes back to
\* the test of the predicate.
CvDeqWake(c) ==
    /\ cpc[c] = "blocked"
    /\ c \notin cvWaiting
    /\ m_mutexQue = ""
    /\ m_mutexQue' = "deq"
    /\ cpc' = [cpc EXCEPT ![c] = "locked"]
    /\ lastOp' = Op("step", TRUE)
    /\ UNCHANGED <<qvars, cTimeout, returned, cvWaiting, NotQueue>>

\* A blocked thread is unblocked without a notification (a spurious wake-up,
\* which wait and wait_for permit).
CvDeqSpurious(c) ==
    /\ cpc[c] = "blocked"
    /\ c \in cvWaiting
    /\ cvWaiting' = cvWaiting \ {c}
    /\ lastOp' = Op("step", TRUE)
    /\ UNCHANGED <<qvars, cvars, m_mutexQue, NotQueue>>

\* Deq, lines 101-103: wait_for runs out; the thread takes the lock again and
\* wait_for returns the predicate's value, with which lines 106-112 go on.
CvDeqTimeout(c) ==
    /\ cpc[c] = "blocked"
    /\ cTimeout[c] /= 0
    /\ m_mutexQue = ""
    /\ cvWaiting' = cvWaiting \ {c}
    /\ CvDeqFinish(c, WaitPred(m_que, m_bShutdown))
    /\ UNCHANGED <<m_bShutdown, accepted, cTimeout, NotQueue>>

NextQueueCv ==
    \/ \E pcData \in QueueItems : Len(accepted) < MaxEnq /\ CvEnq(pcData)
    \/ \E c \in Consumers, unTimeout \in {0, RunTimeout} : CvDeqLock(c, unTimeout)
    \/ \E c \in Consumers : CvDeqTest(c)
    \/ \E c \in Consumers : CvDeqWake(c)
    \/ \E c \in Consumers : CvDeqSpurious(c)
    \/ \E c \in Consumers : CvDeqTimeout(c)
    \/ CvShutdown

SpecQueueCv == Init /\ [][NextQueueCv]_vars

\* RegisterMessageHandler, lines 128-139: the emplace under the registry's
\* lock, then Signal::Raise(SIGUSR2).
RegisterMessageHandler(strEventName, fnH) ==
    /\ Alive
    /\ regpc = "idle"
    /\ m_cMessageHandlerMutex = ""
    /\ m_mapMessageHandler' = Emplace(m_mapMessageHandler, strEventName, fnH)
    /\ g_snSignal' = Raise(g_snSignal, SIGUSR2)
    /\ lastOp' = Op("step", TRUE)
    /\ UNCHANGED <<qvars, cvars, m_bRunning, m_mapTimerHandler, m_mapSignalHandler,
                   m_cMessageHandlerMutex, m_cTimerHandlerMutex,
                   m_cSignalHandlerMutex, rvars, gvars, tvars, ovars>>

\* RegisterTimer, lines 150-152: the whole call.
RegisterTimer(unTimerId, fnH) ==
    /\ Alive
    /\ regpc = "idle"
    /\ m_cTimerHandlerMutex = ""
    /\ m_mapTimerHandler' = Emplace(m_mapTimerHandler, unTimerId, fnH)
    /\ lastOp' = Op("step", TRUE)
    /\ UNCHANGED <<qvars, cvars, m_bRunning, m_mapMessageHandler, m_mapSignalHandler,
                   m_cMessageHandlerMutex, m_cTimerHandlerMutex,
                   m_cSignalHandlerMutex, g_snSignal, rvars, gvars, tvars,
                   ovars>>

\* RegisterSignalHandler, lines 165-171: the check of the reserved signal, which
\* throws std::logic_error, or else the lock of the signal registry.
RegisterSignalHandler(snSignal, fnH) ==
    /\ Alive
    /\ regpc = "idle"
    /\ IF RegisterRefuses(snSignal)
       THEN /\ lastOp' = Op("RegisterSignalHandler", FALSE)
            /\ UNCHANGED <<m_cSignalHandlerMutex, gvars>>
       ELSE /\ m_cSignalHandlerMutex = ""
            /\ m_cSignalHandlerMutex' = "reg"
            /\ regpc' = "emplace"
            /\ regArg' = RegArg("RegisterSignalHandler", "", 0, snSignal, fnH)
            /\ lastOp' = Op("step", TRUE)
    /\ UNCHANGED <<qvars, cvars, m_bRunning, m_mapMessageHandler,
                   m_mapTimerHandler, m_mapSignalHandler, m_cMessageHandlerMutex,
                   m_cTimerHandlerMutex, g_snSignal, rvars, tvars, ovars>>

\* RegisterSignalHandler, lines 172-176: the emplace ends, the lock is
\* released, and Signal::Raise(SIGUSR2).
RegisterSignalEmplace ==
    /\ Alive
    /\ regpc = "emplace"
    /\ m_mapSignalHandler' =
           Emplace(m_mapSignalHandler, regArg.snSignal, regArg.fnHandler)
    /\ m_cSignalHandlerMutex' = ""
    /\ g_snSignal' = Raise(g_snSignal, SIGUSR2)
    /\ regpc' = "idle"
    /\ regArg' = NoRegArg
    /\ lastOp' = Op("step", TRUE)
    /\ UNCHANGED <<qvars, cvars, m_bRunning, m_mapMessageHandler,
                   m_mapTimerHandler, m_cMessageHandlerMutex, m_cTimerHandlerMutex,
                   rvars, tvars, ovars>>

(***************************************************************************)
(* EventDriven::Run on the actor's thread, and ProcessBase's dispatch       *)
(***************************************************************************)
\* A vOnEvent call: the handler invoked, handler(cEvent), or none.
Invocation(fnH, cEvent) == [fnHandler |-> fnH, cEvent |-> cEvent]

\* Run, lines 45-58 of EventDriven.h: where a failure thrown by vOnEvent goes
\* (the catch clauses, which call LogOnEventException).
ThrowPropagates == "exited"
ThrowTarget == "catch"

\* The end of a dispatch function's scope, by return or by unwinding: the
\* std::lock_guard of lines 237, 263, 291 releases the mutex the thread took.
KeptLocked(mutex) == mutex
Released(mutex) == IF mutex = "run" THEN "" ELSE mutex

\* vDispatchTimer lines 265-268, vDispatchSignal lines 293-296: a lookup that
\* found nothing returns.
InvokesAnyway(fnH) == FALSE
MissingReturns(fnH) == fnH = NoHandler

\* vDispatchMessage, lines 238-246: the handler the call goes through.
OtherHandler(map, strEventName) ==
    IF \E n \in DOMAIN map : n /= strEventName /\ map[n] /= NoHandler
    THEN map[CHOOSE n \in DOMAIN map : n /= strEventName /\ map[n] /= NoHandler]
    ELSE map[strEventName]
FoundHandler(map, strEventName) == map[strEventName]

\* handler(cEvent), lines 246, 273, 301: the handler is passed the event.
PassesDefault(cEvent) == NoEvent
HandlerArgument(cEvent) == cEvent

\* Outcomes of undefined behaviour, beside those that look like a lookup:
\* the process dies, or a call through an empty std::function throws
\* std::bad_function_call.
Crash == -1
BadFunctionCall == -2

\* vDispatchMessage, lines 239-246: after a lookup that found nothing the code
\* logs and goes on to dereference the end iterator. What that yields is
\* undefined: the process dies (the usual outcome of reading through the end
\* iterator), or the call goes through memory that reads as an empty
\* std::function and throws.
DerefEndOutcomes == {Crash, BadFunctionCall}

\* vDispatchSignal, lines 291-292: the lookup in m_mapSignalHandler is made
\* under m_cTimerHandlerMutex, so it can run while RegisterSignalHandler's
\* emplace (under m_cSignalHandlerMutex) is inserting into the map. That is a
\* data race: the lookup sees the map before or after the insertion, or the
\* process dies (a lookup through buckets that are being rehashed).
SignalLookupOutcomes(snSignal) ==
    IF regpc = "emplace" /\ m_mapSignalHandler[regArg.snSignal] = NoHandler
    THEN {m_mapSignalHandler[snSignal],
          Emplace(m_mapSignalHandler, regArg.snSignal, regArg.fnHandler)[snSignal],
          Crash}
    ELSE {m_mapSignalHandler[snSignal]}

\* Run, line 47: while (fnContinue()), with vRunProcess's predicate (line 468).
RunTop ==
    /\ rpc = "top"
    /\ rpc' = IF m_bRunning THEN "deq" ELSE "exited"
    /\ lastOp' = Op("step", TRUE)
    /\ UNCHANGED <<qvars, cvars, m_bRunning, hvars, g_snSignal, msg, fnHandler,
                   dispatched, nExceptions, gvars, tvars, ovars>>

\* Run, lines 48-50: `if (m_queEvent.Deq(msg, unTimeout))` guards the call of
\* vOnEvent; a failed Deq goes back to the loop test.
RunInvokesAlways(bFail) == "onEvent"
RunAfterDeq(bFail) == IF bFail THEN "top" ELSE "onEvent"

\* Deq, lines 89 and 107-113: what the return of Deq leaves in m_mutexQue,
\* which `holder` locked at line 89. pcLock is a local std::unique_lock; its
\* destructor unlocks at either return.
LockKeptAfterDeq(holder) == holder
LockAfterDeq(holder) == ""

\* Run, line 48: m_queEvent.Deq(msg, unTimeout) returns.
RunDeq ==
    /\ rpc = "deq"
    /\ m_mutexQue = ""
    /\ m_mutexQue' = LockAfterDeq("run")
    /\ DeqCanReturn(m_que, m_bShutdown, RunTimeout)
    /\ LET bReady == DeqReady(m_que, m_bShutdown, RunTimeout)
           bFail == DeqFails(m_que, m_bShutdown, bReady)
       IN /\ m_que' = IF bFail THEN m_que ELSE DeqPop(m_que)
          /\ msg' = IF bFail THEN msg ELSE DeqFront(m_que)
          /\ rpc' = RunAfterDeq(bFail)
          /\ lastOp' = Op("step", TRUE)
    /\ UNCHANGED <<m_bShutdown, accepted, cvars, m_bRunning, hvars, g_snSignal,
                   fnHandler, dispatched, nExceptions, gvars, tvars, svars, spc,
                   wvars, kvars, tmAlive, cvWaiting>>

\* What the Run thread does once a dispatch function has looked up fnH (a
\* handler, NoHandler, or an outcome of undefined behaviour), with `mutex` the
\* registry lock it took: the next position, the handler running, the lock.
DispatchPc(fnH) ==
    IF fnH = Crash THEN "crashed"
    ELSE IF fnH = BadFunctionCall THEN ThrowTarget
    ELSE IF fnH = NoHandler THEN "top"
    ELSE "handler"

DispatchLock(fnH, mutex) ==
    IF fnH \in Handlers \/ fnH = Crash THEN "run" ELSE Released(mutex)

DispatchInvoked(fnH) ==
    Append(dispatched, Invocation(IF fnH \in Handlers THEN fnH ELSE NoHandler,
                                  HandlerArgument(msg)))

\* vOnEvent -> vDispatchMessage, lines 233-246.
vDispatchMessage ==
    /\ rpc = "onEvent"
    /\ msg.type = "Message"
    /\ m_cMessageHandlerMutex = ""
    /\ \E fnH \in IF FoundHandler(m_mapMessageHandler, msg.strEventName) = NoHandler
                  THEN DerefEndOutcomes
                  ELSE {FoundHandler(m_mapMessageHandler, msg.strEventName)} :
          /\ rpc' = DispatchPc(fnH)
          /\ fnHandler' = IF fnH \in Handlers THEN fnH ELSE NoHandler
          /\ m_cMessageHandlerMutex' = DispatchLock(fnH, "run")
          /\ dispatched' = DispatchInvoked(fnH)
    /\ lastOp' = Op("step", TRUE)
    /\ UNCHANGED <<qvars, cvars, m_bRunning, m_mapMessageHandler, m_mapTimerHandler,
                   m_mapSignalHandler, m_cTimerHandlerMutex, m_cSignalHandlerMutex,
                   g_snSignal, msg, nExceptions, gvars, tvars, ovars>>

\* vOnEvent -> vDispatchTimer, lines 259-273.
vDispatchTimer ==
    /\ rpc = "onEvent"
    /\ msg.type = "Timer"
    /\ m_cTimerHandlerMutex = ""
    /\ LET fnH == m_mapTimerHandler[msg.unTimerId]
           fnCall == IF MissingReturns(fnH) THEN NoHandler
                     ELSE IF fnH = NoHandler THEN BadFunctionCall ELSE fnH
       IN /\ rpc' = DispatchPc(fnCall)
          /\ fnHandler' = IF fnCall \in Handlers THEN fnCall ELSE NoHandler
          /\ m_cTimerHandlerMutex' = DispatchLock(fnCall, "run")
          /\ dispatched' = DispatchInvoked(fnCall)
          /\ lastOp' = Op("step", TRUE)
    /\ UNCHANGED <<qvars, cvars, m_bRunning, m_mapMessageHandler, m_mapTimerHandler,
                   m_mapSignalHandler, m_cMessageHandlerMutex, m_cSignalHandlerMutex,
                   g_snSignal, msg, nExceptions, gvars, tvars, ovars>>

\* vOnEvent -> vDispatchSignal, lines 287-301. The lock is the timer registry's.
vDispatchSignal ==
    /\ rpc = "onEvent"
    /\ msg.type = "Signal"
    /\ m_cTimerHandlerMutex = ""
    /\ \E fnH \in SignalLookupOutcomes(msg.snSignal) :
          LET fnCall == IF fnH = Crash \/ MissingReturns(fnH) THEN fnH
                        ELSE IF fnH = NoHandler THEN BadFunctionCall ELSE fnH
          IN /\ rpc' = DispatchPc(fnCall)
             /\ fnHandler' = IF fnCall \in Handlers THEN fnCall ELSE NoHandler
             /\ m_cTimerHandlerMutex' = DispatchLock(fnCall, "run")
             /\ dispatched' = DispatchInvoked(fnCall)
    /\ lastOp' = Op("step", TRUE)
    /\ UNCHANGED <<qvars, cvars, m_bRunning, m_mapMessageHandler, m_mapTimerHandler,
                   m_mapSignalHandler, m_cMessageHandlerMutex, m_cSignalHandlerMutex,
                   g_snSignal, msg, nExceptions, gvars, tvars, ovars>>

\* The user handler returns: the dispatch function ends (lines 248-251,
\* 275-279, 303-307) and vOnEvent returns to Run.
HandlerReturn ==
    /\ rpc = "handler"
    /\ rpc' = "top"
    /\ fnHandler' = NoHandler
    /\ m_cMessageHandlerMutex' = Released(m_cMessageHandlerMutex)
    /\ m_cTimerHandlerMutex' = Released(m_cTimerHandlerMutex)
    /\ lastOp' = Op("step", TRUE)
    /\ UNCHANGED <<qvars, cvars, m_bRunning, m_mapMessageHandler, m_mapTimerHandler,
                   m_mapSignalHandler, m_cSignalHandlerMutex, g_snSignal, msg,
                   dispatched, nExceptions, gvars, tvars, ovars>>

\* The user handler throws: the stack unwinds out of the dispatch function
\* into Run's try block (EventDriven.h lines 49-55).
HandlerThrow ==
    /\ rpc = "handler"
    /\ rpc' = ThrowTarget
    /\ fnHandler' = NoHandler
    /\ m_cMessageHandlerMutex' = Released(m_cMessageHandlerMutex)
    /\ m_cTimerHandlerMutex' = Released(m_cTimerHandlerMutex)
    /\ lastOp' = Op("step", TRUE)
    /\ UNCHANGED <<qvars, cvars, m_bRunning, m_mapMessageHandler, m_mapTimerHandler,
                   m_mapSignalHandler, m_cSignalHandlerMutex, g_snSignal, msg,
                   dispatched, nExceptions, gvars, tvars, ovars>>

\* Run's catch clauses: LogOnEventException (ProcessBase.h lines 315-327), and
\* the loop goes on.
RunCatch ==
    /\ rpc = "catch"
    /\ nExceptions' = nExceptions + 1
    /\ rpc' = "top"
    /\ lastOp' = Op("step", TRUE)
    /\ UNCHANGED <<qvars, cvars, m_bRunning, hvars, g_snSignal, msg, fnHandler,
                   dispatched, gvars, tvars, ovars>>

\* bool Post(const TEvent_& msg), EventDriven.h lines 33-35, by any producer
\* thread: a poster of messages, a timer thread, the signal-watch thread, or
\* the thread in Run from inside a handler. Enq takes m_mutexQue first
\* (LockedQueue.h line 71).
Post(cEvent) ==
    Alive /\ Len(accepted) < MaxPosts /\ m_mutexQue = "" /\ Enq(cEvent)

\* The handlers the registering thread passes to RegisterTimer and to
\* RegisterSignalHandler (to RegisterMessageHandler it passes any of Handlers).
TimerSignalHandlers == {1}

NextActor ==
    \/ \E cEvent \in ProcessEvent : Post(cEvent)
    \/ \E n \in EventNames, fnH \in Handlers : RegisterMessageHandler(n, fnH)
    \/ \E t \in TimerIds, fnH \in TimerSignalHandlers : RegisterTimer(t, fnH)
    \/ \E s \in RegisterableSignals, fnH \in TimerSignalHandlers :
           RegisterSignalHandler(s, fnH)
    \/ RegisterSignalEmplace
    \/ RunTop
    \/ RunDeq
    \/ vDispatchMessage
    \/ vDispatchTimer
    \/ vDispatchSignal
    \/ HandlerReturn
    \/ HandlerThrow
    \/ RunCatch

SpecActor == Init /\ [][NextActor]_vars

(***************************************************************************)
(* Registration called from inside a handler, on the thread in Run          *)
(***************************************************************************)
\* std::mutex::lock by the thread that owns the mutex is undefined behaviour
\* ([thread.mutex.requirements.mutex]): the thread blocks for ever, or lock()
\* throws std::system_error(resource_deadlock_would_occur), which unwinds
\* through the handler into Run's catch clauses.
RelockOutcomes == {"deadlocked", ThrowTarget}

\* Where the thread in Run is after std::lock_guard on `mutex` inside a
\* handler (lines 133, 151, 171): back in the handler, unless it owns `mutex`.
NestedLock(mutex) == IF mutex = "run" THEN RelockOutcomes ELSE {"handler"}

\* The Run thread's own state after the lock attempt ended at pc.
NestedRelock(pc) ==
    /\ rpc' = pc
    /\ fnHandler' = IF pc = ThrowTarget THEN NoHandler ELSE fnHandler
    /\ m_cMessageHandlerMutex' =
           IF pc = ThrowTarget THEN Released(m_cMessageHandlerMutex)
           ELSE m_cMessageHandlerMutex
    /\ m_cTimerHandlerMutex' =
           IF pc = ThrowTarget THEN Released(m_cTimerHandlerMutex)
           ELSE m_cTimerHandlerMutex

\* A running handler calls RegisterMessageHandler, lines 128-139.
HandlerRegisterMessage(strEventName, fnH) ==
    /\ rpc = "handler"
    /\ m_cMessageHandlerMutex /= "reg"
    /\ \E pc \in NestedLock(m_cMessageHandlerMutex) :
          /\ NestedRelock(pc)
          /\ m_mapMessageHandler' =
                 IF pc = "handler"
                 THEN Emplace(m_mapMessageHandler, strEventName, fnH)
                 ELSE m_mapMessageHandler
          /\ g_snSignal' =
                 IF pc = "handler" THEN Raise(g_snSignal, SIGUSR2) ELSE g_snSignal
          /\ lastOp' = Op("Handler:RegisterMessageHandler", pc = "handler")
    /\ UNCHANGED <<qvars, cvars, m_bRunning, m_mapTimerHandler, m_mapSignalHandler,
                   m_cSignalHandlerMutex, msg, dispatched, nExceptions, gvars,
                   tvars, ovars>>

\* A running handler calls RegisterTimer, lines 148-153.
HandlerRegisterTimer(unTimerId, fnH) ==
    /\ rpc = "handler"
    /\ m_cTimerHandlerMutex /= "reg"
    /\ \E pc \in NestedLock(m_cTimerHandlerMutex) :
          /\ NestedRelock(pc)
          /\ m_mapTimerHandler' =
                 IF pc = "handler"
                 THEN Emplace(m_mapTimerHandler, unTimerId, fnH)
                 ELSE m_mapTimerHandler
          /\ lastOp' = Op("Handler:RegisterTimer", pc = "handler")
    /\ UNCHANGED <<qvars, cvars, m_bRunning, m_mapMessageHandler,
                   m_mapSignalHandler, m_cSignalHandlerMutex, g_snSignal, msg,
                   dispatched, nExceptions, gvars, tvars, ovars>>

\* A running handler calls RegisterSignalHandler, lines 164-177, for a signal
\* other than the reserved one. It waits while another thread is inside its
\* own RegisterSignalHandler.
HandlerRegisterSignal(snSignal, fnH) ==
    /\ rpc = "handler"
    /\ ~RegisterRefuses(snSignal)
    /\ m_cSignalHandlerMutex /= "reg"
    /\ \E pc \in NestedLock(m_cSignalHandlerMutex) :
          /\ NestedRelock(pc)
          /\ m_mapSignalHandler' =
                 IF pc = "handler"
                 THEN Emplace(m_mapSignalHandler, snSignal, fnH)
                 ELSE m_mapSignalHandler
          /\ g_snSignal' =
                 IF pc = "handler" THEN Raise(g_snSignal, SIGUSR2) ELSE g_snSignal
          /\ lastOp' = Op("Handler:RegisterSignalHandler", pc = "handler")
    /\ UNCHANGED <<qvars, cvars, m_bRunning, m_mapMessageHandler,
                   m_mapTimerHandler, m_cSignalHandlerMutex, msg, dispatched,
                   nExceptions, gvars, tvars, ovars>>

\* The actor with handlers that register further handlers.
NextNested ==
    \/ NextActor
    \/ \E n \in EventNames, fnH \in Handlers : HandlerRegisterMessage(n, fnH)
    \/ \E t \in TimerIds, fnH \in TimerSignalHandlers :
           HandlerRegisterTimer(t, fnH)
    \/ \E s \in RegisterableSignals, fnH \in TimerSignalHandlers :
           HandlerRegisterSignal(s, fnH)

SpecNested == Init /\ [][NextNested]_vars

(***************************************************************************)
(* ProcessBase::Start and ProcessBase::Stop                                *)
(*                                                                         *)
(* Start (lines 98-103) runs the loop on the calling thread: it has        *)
(* returned when the thread in Run is at "exited". Stop is called by a     *)
(* handler or by another thread; its steps are interleaved freely with the *)
(* loop's, which covers both.                                              *)
(***************************************************************************)
\* Stop, line 113: what m_bRunning.store(false) leaves in the flag.
StopKeepsRunning(bRunning) == bRunning
StopStores(bRunning) == FALSE

\* Stop, line 113: m_bRunning.store(false).
StopFlag ==
    /\ Alive
    /\ spc = "idle"
    /\ m_bRunning' = StopStores(m_bRunning)
    /\ spc' = "raise"
    /\ lastOp' = Op("Stop", TRUE)
    /\ UNCHANGED <<qvars, cvars, hvars, g_snSignal, rvars, gvars, tvars, svars,
                   wvars, kvars, xvars>>

\* Stop, line 115: Signal::Raise(SIGUSR2).
StopRaise ==
    /\ Alive
    /\ spc = "raise"
    /\ g_snSignal' = Raise(g_snSignal, SIGUSR2)
    /\ spc' = "hook"
    /\ lastOp' = Op("step", TRUE)
    /\ UNCHANGED <<qvars, cvars, m_bRunning, hvars, rvars, gvars, tvars, svars,
                   wvars, kvars, xvars>>

\* Stop, line 117: vOnStop(), the hook of the derived class (pure virtual,
\* line 198), runs and returns.
StopHook ==
    /\ Alive
    /\ spc = "hook"
    /\ spc' = "shutdown"
    /\ lastOp' = Op("vOnStop", TRUE)
    /\ UNCHANGED <<qvars, cvars, avars, tvars, svars, wvars, kvars, xvars>>

\* Stop, line 118: Shutdown() of the actor's queue, and Stop returns.
StopShutdown ==
    /\ Alive
    /\ spc = "shutdown"
    /\ m_bShutdown' = TRUE
    /\ spc' = "done"
    /\ lastOp' = Op("step", TRUE)
    /\ UNCHANGED <<m_que, accepted, cvars, avars, tvars, svars, wvars, kvars,
                   xvars>>

\* An actor that handles messages, with Stop.
NextStart ==
    \/ \E m \in MessageInputs : Post(MessageEvent(m[1], m[2]))
    \/ \E n \in EventNames, fnH \in Handlers : RegisterMessageHandler(n, fnH)
    \/ RunTop
    \/ RunDeq
    \/ vDispatchMessage
    \/ HandlerReturn
    \/ HandlerThrow
    \/ RunCatch
    \/ StopFlag
    \/ StopRaise
    \/ StopHook
    \/ StopShutdown

SpecStart == Init /\ [][NextStart]_vars

\* The thread in Run keeps being scheduled: the loop test, Deq (which returns
\* at the latest on its timeout of 100 ms) and the dispatch are taken; a
\* handler that is running terminates, by returning or by throwing; the
\* thread in Stop goes on, and its vOnStop hook returns.
FairStart ==
    /\ WF_vars(RunTop)
    /\ WF_vars(RunDeq)
    /\ WF_vars(vDispatchMessage)
    /\ WF_vars(HandlerReturn \/ HandlerThrow)
    /\ WF_vars(RunCatch)
    /\ WF_vars(StopRaise)
    /\ WF_vars(StopHook)
    /\ WF_vars(StopShutdown)

SpecStartFair == SpecStart /\ FairStart

(***************************************************************************)
(* TimerManager: StartTimer, StopTimer, StopAllTimers, the backing threads *)
(***************************************************************************)
\* StopTimer, lines 70-77: the entry under the id is detached and erased. The
\* detached thread is left running.
StopTimerMap(map, unTimerId) == [map EXCEPT ![unTimerId] = NoThread]

\* What StopTimer does to the backing thread it detaches: nothing (line 74:
\* detach() only gives up the handle).
DetachThread(thread) == thread

\* The backing thread after its sleep, line 48: it goes on unless the manager
\* was shut down.
WokenPostsAnyway(bShutdown) == "post"
WokenNeverPosts(bShutdown) == "done"
WokenPc(bShutdown) == IF bShutdown THEN "done" ELSE "post"

\* vRemoveTimer, lines 108-113: the entry under the id is erased, whichever
\* thread it holds.
RemoveTimerMap(map, unTimerId) == [map EXCEPT ![unTimerId] = NoThread]

\* The threads not created yet.
FreeThreads == {th \in TimerThreads : thr[th].pc = "none"}

\* StartTimer, lines 43-56: StopTimer(unTimerId), then the backing thread is
\* created and starts to sleep. The thread object is still a local of StartTimer.
StartTimer(unTimerId, pcMsg) ==
    /\ tpc = "idle"
    /\ FreeThreads /= {}
    /\ LET th == CHOOSE f \in FreeThreads : \A g \in FreeThreads : f <= g
           old == m_mapTimers[unTimerId]
       IN /\ m_mapTimers' = StopTimerMap(m_mapTimers, unTimerId)
          /\ thr' = [x \in TimerThreads |->
                        IF x = th THEN TimerThread(unTimerId, pcMsg, "sleep")
                        ELSE IF x = old THEN DetachThread(thr[x])
                        ELSE thr[x]]
          /\ replacedAsleep' =
                 IF old /= NoThread /\ thr[old].pc = "sleep"
                 THEN replacedAsleep \cup {old} ELSE replacedAsleep
          /\ tArg' = th
    /\ tpc' = "insert"
    /\ lastOp' = Op("step", TRUE)
    /\ UNCHANGED <<qvars, cvars, avars, m_bShutdownTimers, stoppedAsleep,
                   asleepAtShutdown, timerPosts, ovars>>

\* StartTimer, lines 58-59: m_mapTimers[unTimerId] = std::move(th), under the lock.
StartTimerInsert ==
    /\ tpc = "insert"
    /\ m_mapTimers' = [m_mapTimers EXCEPT ![thr[tArg].unTimerId] = tArg]
    /\ tpc' = "idle"
    /\ tArg' = NoThread
    /\ lastOp' = Op("step", TRUE)
    /\ UNCHANGED <<qvars, cvars, avars, m_bShutdownTimers, thr, replacedAsleep,
                   stoppedAsleep, asleepAtShutdown, timerPosts, ovars>>

\* StopTimer(unTimerId), lines 69-78, called on its own.
StopTimer(unTimerId) ==
    /\ tpc = "idle"
    /\ m_mapTimers' = StopTimerMap(m_mapTimers, unTimerId)
    /\ thr' = [x \in TimerThreads |->
                  IF x = m_mapTimers[unTimerId] THEN DetachThread(thr[x])
                  ELSE thr[x]]
    /\ stoppedAsleep' =
           IF m_mapTimers[unTimerId] /= NoThread
              /\ thr[m_mapTimers[unTimerId]].pc = "sleep"
           THEN stoppedAsleep \cup {m_mapTimers[unTimerId]} ELSE stoppedAsleep
    /\ lastOp' = Op("StopTimer", m_mapTimers[unTimerId] /= NoThread)
    /\ UNCHANGED <<qvars, cvars, avars, m_bShutdownTimers, tpc, tArg,
                   replacedAsleep, asleepAtShutdown, timerPosts, ovars>>

\* StopAllTimers, lines 87-97: the flag, then every entry detached and erased.
StopAllTimers ==
    /\ tpc = "idle"
    /\ m_bShutdownTimers' = TRUE
    /\ m_mapTimers' = [t \in TimerIds |-> NoThread]
    /\ asleepAtShutdown' =
           asleepAtShutdown \cup {th \in TimerThreads : thr[th].pc = "sleep"}
    /\ lastOp' = Op("StopAllTimers", TRUE)
    /\ UNCHANGED <<qvars, cvars, avars, thr, tpc, tArg, replacedAsleep,
                   stoppedAsleep, timerPosts, ovars>>

\* A backing thread, lines 46-48: the sleep ends and m_bShutdown is read.
TimerWake(th) ==
    /\ thr[th].pc = "sleep"
    /\ thr' = [thr EXCEPT ![th].pc = WokenPc(m_bShutdownTimers)]
    /\ lastOp' = Op("step", TRUE)
    /\ UNCHANGED <<qvars, cvars, avars, m_mapTimers, m_bShutdownTimers, tpc,
                   tArg, replacedAsleep, stoppedAsleep, asleepAtShutdown,
                   timerPosts, ovars>>

\* A backing thread, lines 50-53: the receiver is resolved and the event posted.
TimerPost(th) ==
    /\ thr[th].pc = "post"
    /\ EnqEffect(thr[th].pcMsg)
    /\ thr' = [thr EXCEPT ![th].pc = "remove"]
    /\ timerPosts' = Append(timerPosts, th)
    /\ UNCHANGED <<m_bShutdown, cvars, avars, m_mapTimers, m_bShutdownTimers,
                   tpc, tArg, replacedAsleep, stoppedAsleep, asleepAtShutdown,
                   ovars>>

\* A backing thread, line 55: vRemoveTimer(unTimerId), and the thread ends.
TimerRemove(th) ==
    /\ thr[th].pc = "remove"
    /\ m_mapTimers' = RemoveTimerMap(m_mapTimers, thr[th].unTimerId)
    /\ thr' = [thr EXCEPT ![th].pc = "done"]
    /\ lastOp' = Op("step", TRUE)
    /\ UNCHANGED <<qvars, cvars, avars, m_bShutdownTimers, tpc, tArg,
                   replacedAsleep, stoppedAsleep, asleepAtShutdown, timerPosts,
                   ovars>>

NextTimers ==
    \/ \E t \in TimerIds, pcMsg \in TimerMessages : StartTimer(t, pcMsg)
    \/ StartTimerInsert
    \/ \E t \in TimerIds : StopTimer(t)
    \/ StopAllTimers
    \/ \E th \in TimerThreads : TimerWake(th)
    \/ \E th \in TimerThreads : TimerPost(th)
    \/ \E th \in TimerThreads : TimerRemove(th)

SpecTimers == Init /\ [][NextTimers]_vars

\* Every backing thread is a detached or owned std::thread that the system
\* keeps scheduling: its sleep_for ends, and it goes on through Post and
\* vRemoveTimer.
FairTimers ==
    \A th \in TimerThreads :
        /\ WF_vars(TimerWake(th))
        /\ WF_vars(TimerPost(th))
        /\ WF_vars(TimerRemove(th))

SpecTimersFair == SpecTimers /\ FairTimers

(***************************************************************************)
(* TimerManager: its destruction, with backing threads still running       *)
(***************************************************************************)
\* What a backing thread that wakes after ~TimerManager finds where
\* m_bShutdown was (line 48 reads through the dangling `this`): the flag as the
\* destructor left it, so that the thread ends; other contents, so that it
\* goes on to m_wpReceiver and Post; or the read kills the process.
FreedFlagOutcomes == {"done", "post", "crashed"}

\* ~TimerManager, lines 29-31: StopAllTimers() (the flag, every entry detached
\* and erased), then the members are destroyed. Detached threads run on.
DestroyTimerManager ==
    /\ tmAlive
    /\ tpc = "idle"
    /\ m_bShutdownTimers' = TRUE
    /\ m_mapTimers' = [t \in TimerIds |-> NoThread]
    /\ asleepAtShutdown' =
           asleepAtShutdown \cup {th \in TimerThreads : thr[th].pc = "sleep"}
    /\ tmAlive' = FALSE
    /\ lastOp' = Op("~TimerManager", TRUE)
    /\ UNCHANGED <<qvars, cvars, avars, thr, tpc, tArg, replacedAsleep,
                   stoppedAsleep, timerPosts, svars, spc, wvars, kvars, lvars>>

\* A backing thread, lines 46-48, whose sleep ends after the manager is gone.
TimerWakeFreed(th) ==
    /\ ~tmAlive
    /\ thr[th].pc = "sleep"
    /\ \E pc \in FreedFlagOutcomes : thr' = [thr EXCEPT ![th].pc = pc]
    /\ lastOp' = Op("step", TRUE)
    /\ UNCHANGED <<qvars, cvars, avars, m_mapTimers, m_bShutdownTimers, tpc,
                   tArg, replacedAsleep, stoppedAsleep, asleepAtShutdown,
                   timerPosts, ovars>>

\* The timer manager from construction to destruction: its operations are
\* called while it exists; the backing threads run whenever they are scheduled.
NextTimerLife ==
    \/ \E t \in TimerIds, pcMsg \in TimerMessages :
           tmAlive /\ StartTimer(t, pcMsg)
    \/ StartTimerInsert
    \/ \E t \in TimerIds : tmAlive /\ StopTimer(t)
    \/ tmAlive /\ StopAllTimers
    \/ DestroyTimerManager
    \/ \E th \in TimerThreads : tmAlive /\ TimerWake(th)
    \/ \E th \in TimerThreads : TimerWakeFreed(th)
    \/ \E th \in TimerThreads : TimerPost(th)
    \/ \E th \in TimerThreads : TimerRemove(th)

SpecTimerLife == Init /\ [][NextTimerLife]_vars



(***************************************************************************)
(* Signal: Raise, the handler std::signal installs, Wait                   *)
(***************************************************************************)
\* The signal lists handed to Wait: the two ordinary signals and the wake
\* signal, or the wake signal alone.
WaitLists == {{SIGTERM, SIGINT, SIGUSR2}, {SIGUSR2}}

\* The numbers handed to Raise.
RaiseInputs == {0, SIGUSR2, SIGTERM}

\* Wait, lines 72-75: compare_exchange_strong(expected = false, true) fails
\* when the flag is already set, and Wait throws std::logic_error.
WaitRefusesNever(bInUse) == FALSE
WaitRefuses(bInUse) == bInUse

\* Wait, line 83: `if (snSignal != 0)`, on what exchange(0) read.
PollReturnsAlways(snSignal) == TRUE
PollReturnsOnlyWake(snSignal) == snSignal = SIGUSR2
PollReturns(snSignal) == snSignal /= 0

\* Wait, line 82: what g_snSignal.exchange(0) leaves in the slot it read.
LoadOnly(snSignal) == snSignal
ExchangeZero(snSignal) == 0

\* Everything but the pending-signal slot and the state of Wait.
NotSignal ==
    <<qvars, cvars, m_bRunning, hvars, rvars, gvars, tvars, spc, wvars, kvars,
      xvars>>

\* Raise(snSig), lines 54-58, by any thread.
RaiseCall(snSig) ==
    /\ g_snSignal' = Raise(g_snSignal, snSig)
    /\ snReplaced' = g_snSignal
    /\ lastOp' = Op("Raise", snSig /= 0)
    /\ UNCHANGED <<NotSignal, g_bWaitInUse, sigInstalled, wpc, wret>>

\* vSignalHandler(snSig), lines 41-44: the system delivers a signal for which
\* std::signal has set the handler.
vSignalHandler(snSig) ==
    /\ snSig \in sigInstalled
    /\ g_snSignal' = snSig
    /\ lastOp' = Op("vSignalHandler", TRUE)
    /\ UNCHANGED <<NotSignal, svars>>

\* Wait(listSignal), lines 70-79: the exchange on the in-use flag, which
\* throws or lets the caller in; then std::signal for every listed number.
WaitEnter(w, listSignal) ==
    /\ wpc[w] = "idle"
    /\ IF WaitRefuses(g_bWaitInUse)
       THEN /\ lastOp' = Op("Wait", FALSE)
            /\ UNCHANGED svars
       ELSE /\ g_bWaitInUse' = TRUE
            /\ sigInstalled' = sigInstalled \cup listSignal
            /\ wpc' = [wpc EXCEPT ![w] = "poll"]
            /\ lastOp' = Op("WaitEnter", TRUE)
            /\ UNCHANGED <<wret, snReplaced>>
    /\ UNCHANGED <<NotSignal, g_snSignal>>

\* Wait, lines 81-88: one iteration of the polling loop. exchange(0) reads and
\* clears the slot; a non-zero value releases the flag and is returned, zero
\* sleeps and polls again.
WaitPoll(w) ==
    /\ wpc[w] = "poll"
    /\ g_snSignal' = ExchangeZero(g_snSignal)
    /\ IF PollReturns(g_snSignal)
       THEN /\ g_bWaitInUse' = FALSE
            /\ wret' = [wret EXCEPT ![w] = g_snSignal]
            /\ wpc' = [wpc EXCEPT ![w] = "idle"]
            /\ lastOp' = Op("Wait", TRUE)
       ELSE /\ lastOp' = Op("step", TRUE)
            /\ UNCHANGED <<g_bWaitInUse, wret, wpc>>
    /\ UNCHANGED <<NotSignal, sigInstalled, snReplaced>>

NextSignal ==
    \/ \E snSig \in RaiseInputs : RaiseCall(snSig)
    \/ \E snSig \in RegisterableSignals : vSignalHandler(snSig)
    \/ \E w \in Waiters, listSignal \in WaitLists : WaitEnter(w, listSignal)
    \/ \E w \in Waiters : WaitPoll(w)

SpecSignal == Init /\ [][NextSignal]_vars

\* A thread in Wait's loop keeps being scheduled: its sleep_for ends and it
\* polls again.
FairSignal == \A w \in Waiters : WF_vars(WaitPoll(w))

SpecSignalFair == SpecSignal /\ FairSignal


(***************************************************************************)
(* ProcessBase::vSignalWaitThread, the signal-watch thread                 *)
(*                                                                         *)
(* Start (line 100) creates it, detached. It is the only caller of         *)
(* Signal::Wait in the process.                                            *)
(***************************************************************************)
\* vSignalWaitThread, line 365: while (m_bRunning.load()).
WatchLoopsAlways(bRunning) == TRUE
WatchLoops(bRunning) == bRunning

\* vSignalWaitThread, lines 367-376: the registered signal numbers, and the
\* wake signal pushed behind them.
ScanList(map) == {s \in DOMAIN map : map[s] /= NoHandler} \cup {SIGUSR2}

\* vSignalWaitThread, line 381: `if (snSignal == SIGUSR2) continue;`.
WatchSkipsNothing(snSig) == FALSE
WatchSkips(snSig) == snSig = SIGUSR2

\* What the signal-watch thread never touches.
WatchFrame ==
    <<cvars, m_bRunning, m_mapMessageHandler, m_mapTimerHandler,
      m_mapSignalHandler, m_cMessageHandlerMutex, m_cTimerHandlerMutex,
      m_cSignalHandlerMutex, rvars, gvars, tvars, wpc, wret, snReplaced, spc,
      wvars, xvars>>

\* Start, line 100: std::thread(&ProcessBase::vSignalWaitThread, this).detach().
StartSignalWaitThread ==
    /\ swpc = "none"
    /\ swpc' = "top"
    /\ lastOp' = Op("Start", TRUE)
    /\ UNCHANGED <<WatchFrame, qvars, g_snSignal, g_bWaitInUse, sigInstalled,
                   swList, swSignal, swGot, swPosted>>

\* Line 365: the loop test.
WatchTop ==
    /\ swpc = "top"
    /\ swpc' = IF WatchLoops(m_bRunning) THEN "scan" ELSE "exited"
    /\ lastOp' = Op("step", TRUE)
    /\ UNCHANGED <<WatchFrame, qvars, g_snSignal, g_bWaitInUse, sigInstalled,
                   swList, swSignal, swGot, swPosted>>

\* Lines 367-376: the list is built from the registry under
\* m_cSignalHandlerMutex, then SIGUSR2 is pushed.
WatchScan ==
    /\ swpc = "scan"
    /\ m_cSignalHandlerMutex = ""
    /\ swList' = ScanList(m_mapSignalHandler)
    /\ swpc' = "wait"
    /\ lastOp' = Op("step", TRUE)
    /\ UNCHANGED <<WatchFrame, qvars, g_snSignal, g_bWaitInUse, sigInstalled,
                   swSignal, swGot, swPosted>>

\* Line 378, Signal::Wait lines 72-79: the exchange on the in-use flag, then
\* std::signal for every number of the list. A refused Wait throws
\* std::logic_error, which nothing in the thread catches.
WatchWaitEnter ==
    /\ swpc = "wait"
    /\ IF WaitRefuses(g_bWaitInUse)
       THEN /\ swpc' = "terminated"
            /\ lastOp' = Op("Wait", FALSE)
            /\ UNCHANGED <<g_bWaitInUse, sigInstalled>>
       ELSE /\ g_bWaitInUse' = TRUE
            /\ sigInstalled' = sigInstalled \cup swList
            /\ swpc' = "poll"
            /\ lastOp' = Op("WaitEnter", TRUE)
    /\ UNCHANGED <<WatchFrame, qvars, g_snSignal, swList, swSignal, swGot,
                   swPosted>>

\* Line 378, Signal::Wait lines 81-88: one iteration of the polling loop.
WatchWaitPoll ==
    /\ swpc = "poll"
    /\ g_snSignal' = ExchangeZero(g_snSignal)
    /\ IF PollReturns(g_snSignal)
       THEN /\ g_bWaitInUse' = FALSE
            /\ swSignal' = g_snSignal
            /\ swpc' = "check"
            /\ lastOp' = Op("Wait", TRUE)
       ELSE /\ lastOp' = Op("step", TRUE)
            /\ UNCHANGED <<g_bWaitInUse, swSignal, swpc>>
    /\ UNCHANGED <<WatchFrame, qvars, sigInstalled, swList, swGot, swPosted>>

\* Lines 381-383: the wake signal sends the thread back to the loop test.
WatchCheck ==
    /\ swpc = "check"
    /\ IF WatchSkips(swSignal)
       THEN swpc' = "top" /\ UNCHANGED swGot
       ELSE swpc' = "post" /\ swGot' = Append(swGot, swSignal)
    /\ lastOp' = Op("step", TRUE)
    /\ UNCHANGED <<WatchFrame, qvars, g_snSignal, g_bWaitInUse, sigInstalled,
                   swList, swSignal, swPosted>>

\* Lines 385-387: SignalEvent cSignalEvent{}; cSignalEvent.snSignal = snSignal;
\* Post(cSignalEvent).
WatchPost ==
    /\ swpc = "post"
    /\ EnqEffect(SignalEvent(swSignal))
    /\ swPosted' = Append(swPosted, SignalEvent(swSignal))
    /\ swpc' = "top"
    /\ UNCHANGED <<WatchFrame, m_bShutdown, g_snSignal, g_bWaitInUse,
                   sigInstalled, swList, swSignal, swGot>>

\* The actor's signal side: Start, the signal-watch thread, registration of
\* signal handlers at run time, signals delivered by the system, Stop. The
\* system stops delivering once the queue has accepted MaxPosts events.
NextWatch ==
    \/ StartSignalWaitThread
    \/ WatchTop
    \/ WatchScan
    \/ WatchWaitEnter
    \/ WatchWaitPoll
    \/ WatchCheck
    \/ WatchPost
    \/ \E s \in RegisterableSignals, fnH \in TimerSignalHandlers :
           RegisterSignalHandler(s, fnH)
    \/ RegisterSignalEmplace
    \/ \E snSig \in RegisterableSignals :
           Len(accepted) < MaxPosts /\ vSignalHandler(snSig)
    \/ StopFlag
    \/ StopRaise
    \/ StopHook
    \/ StopShutdown

SpecWatch == Init /\ [][NextWatch]_vars

\* The signal-watch thread keeps being scheduled: every step it can take it
\* takes, its sleep_for in Wait ends, and it gets m_cSignalHandlerMutex, which
\* a registering thread holds only for its emplace and releases again. The
\* thread in Stop goes on and its hook returns.
FairWatch ==
    /\ WF_vars(WatchTop)
    /\ SF_vars(WatchScan)
    /\ WF_vars(WatchWaitEnter)
    /\ WF_vars(WatchWaitPoll)
    /\ WF_vars(WatchCheck)
    /\ WF_vars(WatchPost)
    /\ WF_vars(RegisterSignalEmplace)
    /\ WF_vars(StopRaise)
    /\ WF_vars(StopHook)
    /\ WF_vars(StopShutdown)

SpecWatchFair == SpecWatch /\ FairWatch

(***************************************************************************)
(* WorkerThreadBase: Start, Stop, and the thread that drives Run           *)
(*                                                                         *)
(* Start and Stop are called by one controlling thread, one call after the *)
(* other (the class has no lock of its own).                               *)
(***************************************************************************)
\* Start, line 44: `if (m_bRunning || !m_spMessageDriven) return;`.
StartChecksEngineOnly(bRunning, bBound) == ~bBound
StartIsNoOp(bRunning, bBound) == bRunning \/ ~bBound

\* Stop, lines 69-71: join() returns once the thread has left its function;
\* a thread that is not joinable is not waited for.
JoinReturnsAtOnce(th, pc) == TRUE
JoinReturns(th, pc) == th = "joinable" => pc = "exited"

\* Everything but the queue and the worker.
NotWorker == <<cvars, avars, tvars, svars, spc, kvars, xvars>>

\* Start, lines 43-52.
WorkerStart ==
    /\ ctl = "idle"
    /\ IF StartIsNoOp(m_bRunningWorker, m_spMessageDriven)
       THEN /\ lastOp' = Op("Start", FALSE)
            /\ UNCHANGED <<m_bRunningWorker, m_thread, dpc, nLaunched>>
       ELSE /\ m_bRunningWorker' = TRUE
            /\ m_thread' = "joinable"
            /\ dpc' = "top"
            /\ nLaunched' = nLaunched + 1
            /\ lastOp' = Op("Start", TRUE)
    /\ UNCHANGED <<qvars, NotWorker, m_spMessageDriven, ctl>>

\* Stop, line 63: m_bRunning.store(false).
WorkerStop ==
    /\ ctl = "idle"
    /\ m_bRunningWorker' = FALSE
    /\ ctl' = "shutdown"
    /\ nLaunched' = 0
    /\ lastOp' = Op("Stop", TRUE)
    /\ UNCHANGED <<qvars, NotWorker, m_spMessageDriven, m_thread, dpc>>

\* Stop, lines 65-67: Shutdown() of the engine's queue, if an engine is bound.
WorkerStopShutdown ==
    /\ ctl = "shutdown"
    /\ m_bShutdown' = (m_bShutdown \/ m_spMessageDriven)
    /\ ctl' = "join"
    /\ lastOp' = Op("step", TRUE)
    /\ UNCHANGED <<m_que, accepted, NotWorker, m_spMessageDriven,
                   m_bRunningWorker, m_thread, dpc, nLaunched>>

\* Stop, lines 69-72: join(), and Stop returns.
WorkerStopJoin ==
    /\ ctl = "join"
    /\ JoinReturns(m_thread, dpc)
    /\ m_thread' = "none"
    /\ dpc' = IF m_thread = "joinable" THEN "none" ELSE dpc
    /\ ctl' = "idle"
    /\ lastOp' = Op("StopReturn", TRUE)
    /\ UNCHANGED <<qvars, NotWorker, m_spMessageDriven, m_bRunningWorker,
                   nLaunched>>

\* The driven thread, lines 47-51 and EventDriven::Run line 47: the loop test
\* with the predicate that loads m_bRunning.
WorkerRunTop ==
    /\ dpc = "top"
    /\ dpc' = IF m_bRunningWorker THEN "deq" ELSE "exited"
    /\ lastOp' = Op("step", TRUE)
    /\ UNCHANGED <<qvars, NotWorker, m_spMessageDriven, m_bRunningWorker,
                   m_thread, ctl, nLaunched>>

\* The driven thread, Run line 48: Deq(msg, 100) returns.
WorkerRunDeq ==
    /\ dpc = "deq"
    /\ DeqCanReturn(m_que, m_bShutdown, RunTimeout)
    /\ LET bReady == DeqReady(m_que, m_bShutdown, RunTimeout)
           bFail == DeqFails(m_que, m_bShutdown, bReady)
       IN /\ m_que' = IF bFail THEN m_que ELSE DeqPop(m_que)
          /\ returned' = IF bFail THEN returned
                         ELSE Append(returned, DeqFront(m_que))
          /\ dpc' = IF bFail THEN "top" ELSE "callback"
    /\ lastOp' = Op("step", TRUE)
    /\ UNCHANGED <<m_bShutdown, accepted, cpc, cTimeout, avars, tvars, svars,
                   spc, kvars, xvars, m_spMessageDriven, m_bRunningWorker,
                   m_thread, ctl, nLaunched>>

\* The driven thread, Run lines 49-56: vOnEvent(msg) returns, or throws and is
\* logged by the catch clause.
WorkerCallback ==
    /\ dpc = "callback"
    /\ dpc' = "top"
    /\ lastOp' = Op("step", TRUE)
    /\ UNCHANGED <<qvars, NotWorker, m_spMessageDriven, m_bRunningWorker,
                   m_thread, ctl, nLaunched>>

NextWorker ==
    \/ WorkerStart
    \/ WorkerStop
    \/ WorkerStopShutdown
    \/ WorkerStopJoin
    \/ WorkerRunTop
    \/ WorkerRunDeq
    \/ WorkerCallback
    \/ \E pcData \in QueueItems : Post(pcData)

SpecWorker == InitAnyWorker /\ [][NextWorker]_vars

\* The driven thread keeps being scheduled and its callback terminates; the
\* thread in Stop goes on when it can.
FairWorker ==
    /\ WF_vars(WorkerRunTop)
    /\ WF_vars(WorkerRunDeq)
    /\ WF_vars(WorkerCallback)
    /\ WF_vars(WorkerStopShutdown)
    /\ WF_vars(WorkerStopJoin)

SpecWorkerFair == SpecWorker /\ FairWorker

(***************************************************************************)
(* Claims about LockedQueue, checked under SpecQueue.                      *)
(***************************************************************************)
\* A step in which a Deq call returned false.
DeqReturnedFalse ==
    /\ lastOp'.op = "Deq"
    /\ ~lastOp'.ok
    /\ \E c \in Consumers : cpc[c] = "wait" /\ cpc'[c] = "idle"

\* C1: the queue is FIFO and drains after shutdown. At every moment the items
\* handed out by Deq, followed by the items still queued, are exactly the
\* items Enq accepted, in the order Enq accepted them (shut down or not); and
\* a Deq call returns false only on an empty queue, so on a shut-down queue
\* only after the last accepted item has been handed out.
C1_FifoDrain ==
    /\ [](returned \o m_que = accepted)
    /\ [][DeqReturnedFalse => (m_que = <<>> /\ returned = accepted)]_vars

\* C1 witness: a queue that was shut down holding three items has handed out
\* all three, in order, and the next Deq has reported failure.
C1_Witness ==
    /\ m_bShutdown
    /\ Len(accepted) = 3
    /\ returned = accepted
    /\ accepted[1] /= accepted[2]
    /\ lastOp = Op("Deq", FALSE)

\* C2: after Shutdown, every Enq call returns false and leaves the contents
\* and the shutdown flag as they were.
C2_EnqAfterShutdown ==
    [][(lastOp'.op = "Enq" /\ m_bShutdown)
        => (~lastOp'.ok /\ UNCHANGED <<m_que, m_bShutdown, accepted>>)]_vars

\* C2 witness: an Enq on a shut-down queue that still holds items has just
\* returned false.
C2_Witness ==
    /\ m_bShutdown
    /\ m_que /= <<>>
    /\ lastOp = Op("Enq", FALSE)

(***************************************************************************)
(* Claims about the actor, checked under SpecActor.                        *)
(***************************************************************************)
\* The events a sequence of vOnEvent calls was made for.
EventsOf(calls) == [i \in 1..Len(calls) |-> calls[i].cEvent]

\* The Message events of a sequence of events, in order.
MessagesOf(events) == SelectSeq(events, LAMBDA e : e.type = "Message")

\* s is a prefix of t.
IsPrefix(s, t) == Len(s) <= Len(t) /\ SubSeq(t, 1, Len(s)) = s

\* The thread in Run holds no registry lock.
RunHoldsNoLock ==
    /\ m_cMessageHandlerMutex /= "run"
    /\ m_cTimerHandlerMutex /= "run"
    /\ m_cSignalHandlerMutex /= "run"

\* A step in which the thread in Run starts a handler.
HandlerStarts == Len(dispatched') > Len(dispatched) /\ fnHandler' /= NoHandler

\* C3: N messages posted by any producers are delivered exactly once each.
\* (1) The messages dispatched so far are, one for one and in order, the first
\* messages accepted, each passed on unchanged (name and payload); (2) a
\* message's handler is the one the registry holds under the message's name;
\* (3) a message dispatched while a handler is registered under its name
\* reaches that handler; (4) a handler starts only when none is running;
\* (5) once the loop waits on an empty queue, every accepted message has been
\* dispatched.
C3_MessagesDeliveredOnce ==
    /\ [](IsPrefix(MessagesOf(EventsOf(dispatched)), MessagesOf(accepted)))
    /\ [](\A i \in 1..Len(dispatched) :
             (dispatched[i].cEvent.type = "Message"
                 /\ dispatched[i].fnHandler /= NoHandler)
             => dispatched[i].fnHandler
                    = m_mapMessageHandler[dispatched[i].cEvent.strEventName])
    /\ [][(rpc = "onEvent" /\ rpc' /= "onEvent" /\ msg.type = "Message"
              /\ m_mapMessageHandler[msg.strEventName] /= NoHandler)
          => (/\ rpc' = "handler"
              /\ fnHandler' = m_mapMessageHandler[msg.strEventName]
              /\ dispatched' = Append(dispatched, Invocation(fnHandler', msg)))]_vars
    /\ [][HandlerStarts => (fnHandler = NoHandler /\ rpc /= "handler")]_vars
    /\ []((rpc = "deq" /\ m_que = <<>>)
            => MessagesOf(EventsOf(dispatched)) = MessagesOf(accepted))

\* C3 witness: two messages with different names were posted, each went to
\* the handler registered under its own name (two different handlers), and
\* the loop is back waiting on the empty queue.
C3_Witness ==
    /\ Len(accepted) = 2
    /\ Len(dispatched) = 2
    /\ dispatched[1] = Invocation(1, MessageEvent("ping", 2))
    /\ dispatched[2] = Invocation(2, MessageEvent("pong", 1))
    /\ rpc = "deq"
    /\ m_que = <<>>

\* C4: the events of all three kinds are dispatched in the order in which
\* their Enq calls took the queue lock, one at a time: the events dispatched
\* so far are the first events accepted, each Deq of the loop hands out the
\* next one, and a handler starts only when no handler is running.
C4_DispatchInEnqOrder ==
    /\ [](IsPrefix(EventsOf(dispatched), accepted))
    /\ [][(rpc = "deq" /\ rpc' = "onEvent")
          => (/\ Len(dispatched) < Len(accepted)
              /\ msg' = accepted[Len(dispatched) + 1]
              /\ Len(m_que') = Len(accepted) - Len(dispatched) - 1)]_vars
    /\ [][HandlerStarts => (fnHandler = NoHandler /\ rpc /= "handler")]_vars
    /\ [](rpc = "handler" <=> fnHandler /= NoHandler)

\* C4 witness: a timer event and then a message were posted while the loop
\* had not yet dequeued; the timer event was dispatched first and its handler
\* has ended, and the message's handler is running now.
C4_Witness ==
    /\ accepted = <<TimerEvent(7), MessageEvent("ping", 1)>>
    /\ Len(dispatched) = 2
    /\ dispatched[1].cEvent = TimerEvent(7)
    /\ dispatched[1].fnHandler /= NoHandler
    /\ dispatched[2].cEvent = MessageEvent("ping", 1)
    /\ rpc = "handler"

\* C5: a failure thrown by the per-event callback never ends the Run loop. A
\* handler ends by returning to the loop or in Run's catch clause, either way
\* with the registry lock released; the catch clause calls the logging hook
\* once and goes back to the top of the loop; outside a handler the thread in
\* Run holds no registry lock; and the loop is never left while the running
\* flag is set.
C5_FailureContained ==
    /\ [][(rpc = "handler" /\ rpc' /= "handler")
          => (rpc' \in {"top", "catch"} /\ RunHoldsNoLock')]_vars
    /\ [][(rpc = "catch" /\ rpc' /= "catch")
          => (rpc' = "top" /\ nExceptions' = nExceptions + 1)]_vars
    /\ [][(rpc /= "catch" /\ rpc' = "catch") => RunHoldsNoLock']_vars
    /\ []((rpc \notin {"handler", "crashed"}) => RunHoldsNoLock)
    /\ [](m_bRunning => rpc /= "exited")

\* C5 witness: the first event's handler threw, the hook logged it, and the
\* handler of the next event is running.
C5_Witness ==
    /\ Len(dispatched) = 2
    /\ dispatched[1].fnHandler /= NoHandler
    /\ dispatched[2].fnHandler /= NoHandler
    /\ nExceptions = 1
    /\ rpc = "handler"

\* C6: registering a handler under a key that already has one replaces it:
\* after the call, the registry holds the handler just registered under that
\* key (so that later events with that key go to it).
C6_SecondRegistrationWins ==
    /\ [][\A n \in EventNames, fnH \in Handlers :
            RegisterMessageHandler(n, fnH) => m_mapMessageHandler'[n] = fnH]_vars
    /\ [][\A t \in TimerIds, fnH \in Handlers :
            RegisterTimer(t, fnH) => m_mapTimerHandler'[t] = fnH]_vars
    /\ [][(regpc = "emplace" /\ regpc' = "idle")
          => m_mapSignalHandler'[regArg.snSignal] = regArg.fnHandler]_vars

\* C7: a Message event with no handler registered under its name is logged
\* and dropped: the dispatch returns to the loop without invoking anything.
C7_MissingMessageHandlerStops ==
    [][(rpc = "onEvent" /\ rpc' /= "onEvent" /\ msg.type = "Message"
           /\ m_mapMessageHandler[msg.strEventName] = NoHandler)
       => (rpc' = "top" /\ fnHandler' = NoHandler /\ RunHoldsNoLock')]_vars

\* C8: a TimerFired or SignalFired event with no handler registered for its
\* key (and none being registered for that key) returns to the loop without
\* invoking a handler and leaves the three registries unchanged.
C8_MissingTimerSignalHandlerReturns ==
    [][(/\ rpc = "onEvent" /\ rpc' /= "onEvent"
        /\ \/ msg.type = "Timer" /\ m_mapTimerHandler[msg.unTimerId] = NoHandler
           \/ /\ msg.type = "Signal"
              /\ m_mapSignalHandler[msg.snSignal] = NoHandler
              /\ regArg.snSignal /= msg.snSignal)
       => (/\ rpc' = "top"
           /\ fnHandler' = NoHandler
           /\ UNCHANGED <<m_mapMessageHandler, m_mapTimerHandler,
                          m_mapSignalHandler>>)]_vars

\* C9: RegisterSignalHandler with the reserved wake signal fails with a logic
\* error and changes nothing: not the signal registry, not the pending-signal
\* slot, no lock; the registry never holds a handler for the wake signal.
C9_WakeSignalNotRegistrable ==
    /\ [](m_mapSignalHandler[SIGUSR2] = NoHandler)
    /\ [](regpc = "emplace" => regArg.snSignal /= SIGUSR2)
    /\ [][\A fnH \in Handlers :
            RegisterSignalHandler(SIGUSR2, fnH)
            => (/\ lastOp' = Op("RegisterSignalHandler", FALSE)
                /\ UNCHANGED <<hvars, g_snSignal, gvars>>)]_vars

\* C9 witness: the call with the wake signal has just failed, on an actor
\* whose registries are empty and whose pending-signal slot was never written.
C9_Witness ==
    /\ lastOp = Op("RegisterSignalHandler", FALSE)
    /\ g_snSignal = 0
    /\ \A s \in RegisterableSignals : m_mapSignalHandler[s] = NoHandler

(***************************************************************************)
(* Claims about TimerManager, checked under SpecTimers.                    *)
(***************************************************************************)
\* The threads that have posted.
Posters == {timerPosts[i] : i \in 1..Len(timerPosts)}

\* C10: a timer that StartTimer replaced while its backing thread was still
\* in its sleep never posts its event: of the two timers, at most the second
\* posts.
C10_ReplacedTimerNeverPosts ==
    \A th \in replacedAsleep : th \notin Posters

\* C11: StopTimer cancels a timer that has not fired: a backing thread that
\* was still in its sleep when StopTimer detached it never posts its event.
C11_StoppedAsleepNeverPosts ==
    \A th \in stoppedAsleep : th \notin Posters

\* C12: a backing thread that was asleep when StopAllTimers set the shutdown
\* flag never posts. The flag, once set, stays set; a thread that wakes with
\* the flag set ends without calling Post; so no thread that was asleep at
\* that moment is among those that posted.
C12_AsleepAtShutdownNeverPosts ==
    /\ [][m_bShutdownTimers => m_bShutdownTimers']_vars
    /\ [][\A th \in TimerThreads :
            (m_bShutdownTimers /\ thr[th].pc = "sleep")
            => thr'[th].pc \in {"sleep", "done"}]_vars
    /\ [](\A th \in asleepAtShutdown : th \notin Posters)

\* C12 witness: two timers were started; the first had passed its sleep when
\* StopAllTimers ran and has posted, the second was asleep then and has ended
\* without posting.
C12_Witness ==
    /\ m_bShutdownTimers
    /\ asleepAtShutdown = {2}
    /\ thr[2].pc = "done"
    /\ timerPosts = <<1>>

\* C13: a timer whose manager is not shut down (and whose receiver accepts
\* posts) posts its event, once. (1) Every backing thread that is in its
\* sleep eventually has posted or finds the manager shut down, whether or not
\* it was stopped or replaced meanwhile; (2) no thread posts twice; (3) what a
\* thread posts is the event StartTimer was given, and the receiver's queue
\* has accepted it.
C13_TimerPostsOnce ==
    /\ \A th \in TimerThreads :
          (thr[th].pc = "sleep") ~> (th \in Posters \/ m_bShutdownTimers)
    /\ [](\A i, j \in 1..Len(timerPosts) : timerPosts[i] = timerPosts[j] => i = j)
    /\ [](/\ Len(accepted) = Len(timerPosts)
          /\ \A i \in 1..Len(timerPosts) :
                accepted[i] = thr[timerPosts[i]].pcMsg)

\* C13 witness: a timer was started and never stopped or replaced, the
\* manager was never shut down, and the timer's event, and nothing else, has
\* been posted to the receiver.
C13_Witness ==
    /\ ~m_bShutdownTimers
    /\ replacedAsleep = {} /\ stoppedAsleep = {}
    /\ thr[1].pc = "done" /\ thr[2].pc = "none"
    /\ lastOp.op /= "StopTimer"
    /\ timerPosts = <<1>>
    /\ accepted = <<thr[1].pcMsg>>

(***************************************************************************)
(* Claims about Signal, checked under SpecSignal and SpecSignalFair.       *)
(***************************************************************************)
\* The threads inside Wait's polling loop.
Polling == {w \in Waiters : wpc[w] = "poll"}

\* C14: Wait admits one waiter. A Wait called while the in-use flag is set
\* fails with a logic error and leaves the installed handlers, the pending
\* slot and the flag as they were; the flag is set exactly while a thread is
\* in the polling loop; at most one thread is in the loop.
C14_SingleWaiter ==
    /\ [](Cardinality(Polling) <= 1)
    /\ [](g_bWaitInUse <=> Polling /= {})
    /\ [][\A w \in Waiters, listSignal \in WaitLists :
            (WaitEnter(w, listSignal) /\ g_bWaitInUse)
            => (/\ lastOp' = Op("Wait", FALSE)
                /\ UNCHANGED <<g_snSignal, g_bWaitInUse, sigInstalled, wpc, wret>>)]_vars

\* C14 witness: while thread 1 is in the polling loop with only the wake
\* signal installed and a signal pending, a Wait of another thread (either
\* list) has just failed.
C14_Witness ==
    /\ wpc[1] = "poll"
    /\ wpc[2] = "idle"
    /\ lastOp = Op("Wait", FALSE)
    /\ g_snSignal /= 0
    /\ sigInstalled = {SIGUSR2}

\* C15: a thread in Wait returns once the slot is non-zero. Raise(n) and the
\* delivery of an installed signal n put n into the slot; the next polling
\* iteration that finds the slot non-zero returns what it found and clears
\* the slot; and a thread in the loop with a non-zero slot eventually returns.
C15_WaitReturns ==
    /\ [][\A n \in RaiseInputs \ {0} : RaiseCall(n) => g_snSignal' = n]_vars
    /\ [][\A n \in RegisterableSignals : vSignalHandler(n) => g_snSignal' = n]_vars
    /\ [][\A w \in Waiters :
            (WaitPoll(w) /\ g_snSignal /= 0)
            => (/\ wpc'[w] = "idle"
                /\ wret'[w] = g_snSignal
                /\ g_snSignal' = 0)]_vars
    /\ \A w \in Waiters : (wpc[w] = "poll" /\ g_snSignal /= 0) ~> (wpc[w] = "idle")

\* C15 witness: thread 1 waited on the two ordinary signals and the wake
\* signal, SIGTERM was delivered to the installed handler, and Wait has just
\* returned SIGTERM.
C15_Witness ==
    /\ lastOp = Op("Wait", TRUE)
    /\ wret[1] = SIGTERM
    /\ wret[2] = 0
    /\ SIGINT \in sigInstalled
    /\ g_snSignal = 0

(***************************************************************************)
(* Claims about Start and Stop, checked under SpecStartFair.               *)
(***************************************************************************)
\* C16: Start does not return before Stop has been called, and once Stop has
\* been called Start eventually returns (given that a handler that is running
\* terminates).
C16_StartReturnsAfterStop ==
    /\ [](rpc = "exited" => spc /= "idle")
    /\ (spc /= "idle") ~> (rpc = "exited")

(***************************************************************************)
(* Claims about WorkerThreadBase, checked under SpecWorker(Fair).          *)
(***************************************************************************)
\* C17: Start is idempotent. A Start on a worker that is running, or that has
\* no engine, changes nothing; between two Stops at most one thread is
\* launched; a running worker has exactly one thread, the joinable one that
\* drives the loop; a worker without an engine never has one.
C17_StartIdempotent ==
    /\ [][(WorkerStart /\ (m_bRunningWorker \/ ~m_spMessageDriven))
          => UNCHANGED <<qvars, wvars>>]_vars
    /\ [](nLaunched <= 1)
    /\ [](m_bRunningWorker
            => (nLaunched = 1 /\ m_thread = "joinable" /\ dpc /= "none"))
    /\ [](~m_spMessageDriven => (m_thread = "none" /\ dpc = "none"))

\* C17 witness: Start has just been called again on a running worker whose
\* one thread is in a callback.
C17_Witness ==
    /\ lastOp = Op("Start", FALSE)
    /\ m_spMessageDriven
    /\ m_bRunningWorker
    /\ nLaunched = 1
    /\ dpc = "callback"

\* The worker is stopped: not running, no thread, the engine's queue shut down.
WorkerStopped ==
    /\ ~m_bRunningWorker
    /\ m_thread = "none"
    /\ m_spMessageDriven => m_bShutdown

\* C18: Stop is a blocking join and terminates. Before the join the engine's
\* queue is shut down, so that a Deq of the driven thread returns; Stop
\* returns only when the driven thread has left Run, and from then until the
\* next Start there is no driven thread (no callback runs); a Stop on a
\* stopped worker changes nothing; every Stop that was called returns.
C18_StopJoins ==
    /\ []((ctl = "join" /\ m_spMessageDriven) => m_bShutdown)
    /\ [][(ctl = "join" /\ ctl' = "idle")
          => (dpc \in {"exited", "none"} /\ dpc' = "none" /\ m_thread' = "none")]_vars
    /\ []((ctl = "idle" /\ ~m_bRunningWorker) => dpc = "none")
    /\ [][(WorkerStopped /\ (WorkerStop \/ WorkerStopShutdown \/ WorkerStopJoin))
          => UNCHANGED <<qvars, m_spMessageDriven, m_bRunningWorker, m_thread,
                         dpc>>]_vars
    /\ (ctl /= "idle") ~> (ctl = "idle")

\* C18 witness: Stop was called while the driven thread was in a callback
\* with an item still queued, and has returned: the thread is gone and the
\* item is still in the shut-down queue.
C18_Witness ==
    /\ lastOp = Op("StopReturn", TRUE)
    /\ Len(returned) = 1
    /\ Len(m_que) = 1
    /\ m_bShutdown
    /\ dpc = "none"
    /\ m_thread = "none"

(***************************************************************************)
(* Claims about LockedQueue's waits, checked under SpecQueueFair.          *)
(***************************************************************************)
\* C19: Shutdown wakes every blocked consumer. Every thread waiting in a Deq
\* without timeout on a queue that is shut down and empty eventually returns,
\* and the Deq that returns on a shut-down empty queue returns false; a
\* Shutdown on a shut-down queue leaves the flag set and the contents as they
\* were.
C19_ShutdownWakesAll ==
    /\ \A c \in Consumers :
          (cpc[c] = "wait" /\ cTimeout[c] = 0 /\ m_bShutdown /\ m_que = <<>>)
              ~> (cpc[c] = "idle")
    /\ [][\A c \in Consumers :
            (DeqReturn(c) /\ m_bShutdown /\ m_que = <<>>)
            => (lastOp' = Op("Deq", FALSE) /\ UNCHANGED qvars)]_vars
    /\ [][(Shutdown /\ m_bShutdown) => (m_bShutdown' /\ UNCHANGED qvars)]_vars
    /\ [][Shutdown => (m_bShutdown' /\ m_que' = m_que)]_vars

\* C19 witness: both consumers were waiting without timeout on the empty
\* queue when it was shut down, and both have returned false.
C19_Witness ==
    /\ m_bShutdown
    /\ accepted = <<>>
    /\ \A c \in Consumers : cTimeout[c] = 0 /\ cpc[c] = "idle"
    /\ lastOp = Op("Deq", FALSE)

\* C20: a Deq with a timeout on a queue that stays empty and is not shut down
\* eventually returns, and the Deq that returns on an empty queue that is not
\* shut down returns false and leaves the queue as it was.
C20_DeqTimesOut ==
    /\ \A c \in Consumers :
          (cpc[c] = "wait" /\ cTimeout[c] /= 0) ~> (cpc[c] = "idle")
    /\ [][\A c \in Consumers :
            (DeqReturn(c) /\ ~m_bShutdown /\ m_que = <<>>)
            => (/\ cTimeout[c] /= 0
                /\ lastOp' = Op("Deq", FALSE)
                /\ UNCHANGED <<qvars, returned>>)]_vars

\* C20 witness: a Deq with a timeout has just returned false on a queue that
\* was never shut down and never held an item.
C20_Witness ==
    /\ ~m_bShutdown
    /\ accepted = <<>>
    /\ lastOp = Op("Deq", FALSE)
    /\ \E c \in Consumers : cpc[c] = "idle" /\ cTimeout[c] = RunTimeout

(***************************************************************************)
(* Claims about the registry locks, checked under SpecActor.               *)
(***************************************************************************)
\* C21: every access to the signal registry is made under the signal
\* registry's own lock, and likewise for the other two registries. The
\* registering thread is inside its emplace only while it holds
\* m_cSignalHandlerMutex; the dispatch of a Signal event looks the handler up
\* only when no registration is inside its emplace; and while a handler runs
\* (through the reference into the registry the lookup gave), the thread in
\* Run holds the lock of the registry the handler was found in.
C21_RegistryUnderOwnLock ==
    /\ [](regpc = "emplace" => m_cSignalHandlerMutex = "reg")
    /\ [][vDispatchSignal => regpc /= "emplace"]_vars
    /\ []((rpc = "handler" /\ msg.type = "Signal")
            => m_cSignalHandlerMutex = "run")
    /\ []((rpc = "handler" /\ msg.type = "Message")
            => m_cMessageHandlerMutex = "run")
    /\ []((rpc = "handler" /\ msg.type = "Timer")
            => m_cTimerHandlerMutex = "run")

(***************************************************************************)
(* Claims about the timer registry, checked under SpecTimers.              *)
(***************************************************************************)
\* C22: once a timer's backing thread has woken and finished, the registry
\* holds no entry for that timer, whatever the outcome was and however short
\* the delay was: m_mapTimers never holds a thread that has ended.
C22_FinishedTimerHasNoEntry ==
    \A th \in TimerThreads :
        thr[th].pc = "done" => m_mapTimers[thr[th].unTimerId] /= th

(***************************************************************************)
(* Claims about the return of Signal::Wait, checked under SpecSignal.      *)
(***************************************************************************)
\* C23: whenever Wait returns a signal number, the in-use flag is released
\* and the slot was cleared by the read that obtained the value. The step in
\* which Wait returns hands back the non-zero value it read, leaves zero in
\* the slot and the flag clear; a poll that reads zero does not return, so a
\* value that was returned is not seen again unless it is raised again; and a
\* Wait called while no thread is in the polling loop, as after every return,
\* enters without a logic error.
C23_WaitReturnReleases ==
    /\ [][\A w \in Waiters :
            (WaitPoll(w) /\ wpc'[w] = "idle")
            => (/\ wret'[w] = g_snSignal
                /\ wret'[w] /= 0
                /\ g_snSignal' = 0
                /\ ~g_bWaitInUse')]_vars
    /\ [][\A w \in Waiters :
            (WaitPoll(w) /\ g_snSignal = 0)
            => (wpc'[w] = "poll" /\ wret'[w] = wret[w] /\ g_bWaitInUse')]_vars
    /\ [][\A w \in Waiters, listSignal \in WaitLists :
            (WaitEnter(w, listSignal) /\ Polling = {})
            => (lastOp' = Op("WaitEnter", TRUE) /\ wpc'[w] = "poll")]_vars

\* C23 witness: thread 1's Wait returned SIGTERM; after that thread 2 called
\* Wait, entered, and has polled without finding anything.
C23_Witness ==
    /\ wret[1] = SIGTERM
    /\ wpc[1] = "idle"
    /\ wret[2] = 0
    /\ wpc[2] = "poll"
    /\ g_bWaitInUse
    /\ g_snSignal = 0
    /\ lastOp = Op("step", TRUE)

(***************************************************************************)
(* Claims about the steps of ProcessBase::Stop, checked under SpecStart.   *)
(***************************************************************************)
\* C24: Stop clears the running flag, then raises the wake signal, then runs
\* the stop hook, then shuts the queue down; after Stop has returned,
\* IsRunning is false, IsShutdown is true and every Post returns false. Each
\* step of Stop leads to the next in that order and does what is said of it;
\* the flag is set until the first step and clear from then on; the queue is
\* open until the last step (so the hook runs on a cleared flag, a raised wake
\* signal and an open queue); and a Post after the return fails and leaves the
\* queue as it was.
C24_StopOrder ==
    /\ [][spc /= spc'
          => \/ spc = "idle" /\ spc' = "raise" /\ ~m_bRunning'
                  /\ UNCHANGED <<g_snSignal, qvars>>
             \/ spc = "raise" /\ spc' = "hook" /\ g_snSignal' = SIGUSR2
                  /\ UNCHANGED <<m_bRunning, qvars>>
             \/ spc = "hook" /\ spc' = "shutdown" /\ lastOp' = Op("vOnStop", TRUE)
                  /\ UNCHANGED <<m_bRunning, g_snSignal, qvars>>
             \/ spc = "shutdown" /\ spc' = "done" /\ m_bShutdown'
                  /\ UNCHANGED <<m_bRunning, g_snSignal, m_que>>]_vars
    /\ [](spc = "idle" <=> m_bRunning)
    /\ [](spc = "done" <=> m_bShutdown)
    /\ [](spc \in {"hook", "shutdown", "done"} => g_snSignal = SIGUSR2)
    /\ [][(spc = "done" /\ lastOp'.op = "Enq")
          => (~lastOp'.ok /\ UNCHANGED qvars)]_vars

\* C24 witness: Stop has returned while an item was still queued and the loop
\* had not yet seen the cleared flag, and a Post has just returned false.
C24_Witness ==
    /\ spc = "done"
    /\ ~m_bRunning
    /\ m_bShutdown
    /\ lastOp = Op("Enq", FALSE)
    /\ Len(m_que) = 1
    /\ rpc = "deq"

(***************************************************************************)
(* Claims about the signal-watch thread, checked under SpecWatch(Fair).    *)
(***************************************************************************)
\* C25: after Stop has been called, the signal-watch thread eventually leaves
\* Signal::Wait and exits its loop, with the in-use flag released, in every
\* interleaving of Stop with the thread's iteration. The thread never ends
\* through a refused Wait, leaves the loop only on a cleared running flag, and
\* stays out once it has left.
C25_WatchThreadExits ==
    /\ (spc /= "idle" /\ swpc /= "none") ~> (swpc = "exited" /\ ~g_bWaitInUse)
    /\ [](swpc = "exited" => (~m_bRunning /\ ~g_bWaitInUse))
    /\ [](swpc /= "terminated")
    /\ [][swpc = "exited" => swpc' = "exited"]_vars

\* C25 witness: Stop ran to its end while the thread was between two Wait
\* calls, holding a signal it had yet to post: its Post was refused by the
\* shut-down queue, it has left the loop without another Wait, and the wake
\* signal Stop raised is still in the slot.
C25_Witness ==
    /\ swpc = "exited"
    /\ spc = "done"
    /\ Len(swPosted) = 1
    /\ accepted = <<>>
    /\ g_snSignal = SIGUSR2
    /\ ~g_bWaitInUse

\* C26: the signal-watch thread never produces an event for the wake signal,
\* and posts exactly one SignalFired event, carrying the number, for every
\* other number Wait returns. After a Wait that returned the wake signal the
\* thread goes back to the loop test and nothing was posted; after any other
\* return it calls Post once, with a Signal event of that number, on the
\* actor's queue (which accepts it unless shut down), and goes back to the
\* loop test; only that step posts. So the events posted are, one for one and
\* in order, the numbers other than the wake signal that Wait returned, and
\* the events the queue accepted are the first of them.
C26_WakeSignalNeverPosted ==
    /\ [][(swpc = "check" /\ swpc' /= "check")
          => IF swSignal = SIGUSR2
             THEN swpc' = "top" /\ UNCHANGED <<qvars, swPosted, swGot>>
             ELSE swpc' = "post" /\ UNCHANGED <<qvars, swPosted>>]_vars
    /\ [][(swpc = "post" /\ swpc' /= "post")
          => (/\ swpc' = "top"
              /\ swPosted' = Append(swPosted, SignalEvent(swSignal))
              /\ lastOp'.op = "Enq"
              /\ accepted' = IF m_bShutdown THEN accepted
                             ELSE Append(accepted, SignalEvent(swSignal)))]_vars
    /\ [][swPosted' /= swPosted => swpc = "post"]_vars
    /\ [](\A i \in 1..Len(swPosted) :
             swPosted[i].type = "Signal" /\ swPosted[i].snSignal /= SIGUSR2)
    /\ [](/\ Len(swPosted) = Len(swGot) - (IF swpc = "post" THEN 1 ELSE 0)
          /\ \A i \in 1..Len(swPosted) : swPosted[i] = SignalEvent(swGot[i]))
    /\ [](IsPrefix(accepted, swPosted))

\* C26 witness: Wait returned SIGTERM, whose event was posted and accepted,
\* and then the wake signal, after which the thread is back at the loop test
\* of a running actor with nothing more posted.
C26_Witness ==
    /\ swGot = <<SIGTERM>>
    /\ swPosted = <<SignalEvent(SIGTERM)>>
    /\ accepted = swPosted
    /\ swSignal = SIGUSR2
    /\ swpc = "top"
    /\ m_bRunning

\* C27: after RegisterSignalHandler(A, h) has returned on a running actor
\* whose signal-watch thread exists, the thread eventually is inside
\* Signal::Wait with a signal set that contains A (with the handler of
\* Signal.h installed for A), unless the actor is stopped first. The
\* registration ends by raising the wake signal, and every list the thread
\* builds is the registry's keys and the wake signal.
C27_RegisteredSignalWaitedFor ==
    /\ \A A \in RegisterableSignals \ {SIGUSR2} :
          (m_mapSignalHandler[A] /= NoHandler /\ swpc /= "none")
              ~> (\/ swpc = "poll" /\ A \in swList /\ A \in sigInstalled
                  \/ ~m_bRunning)
    /\ [][(regpc = "emplace" /\ regpc' = "idle") => g_snSignal' = SIGUSR2]_vars
    /\ [][(swpc = "scan" /\ swpc' /= "scan")
          => swList' = {s \in RegisterableSignals :
                           m_mapSignalHandler[s] /= NoHandler} \cup {SIGUSR2}]_vars
    /\ [](swpc = "poll" => (SIGUSR2 \in swList /\ swList \subseteq sigInstalled))

\* C27 witness: the thread was in Wait on the wake signal alone when a handler
\* for SIGTERM was registered; Wait returned the wake signal, and the thread
\* is in Wait again, now with SIGTERM in its set, on a running actor that got
\* no other signal.
C27_Witness ==
    /\ swpc = "poll"
    /\ swSignal = SIGUSR2
    /\ swList = {SIGTERM, SIGUSR2}
    /\ sigInstalled = swList
    /\ swGot = <<>>
    /\ g_snSignal = 0
    /\ m_bRunning
    /\ spc = "idle"

C29_CallbackOncePerDeq ==
    /\ [][(rpc = "deq" /\ rpc' /= "deq")
          => IF Len(m_que') < Len(m_que)
             THEN rpc' = "onEvent" /\ msg' = Head(m_que) /\ m_que' = Tail(m_que)
             ELSE rpc' = "top" /\ UNCHANGED <<msg, dispatched, fnHandler>>]_vars
    /\ [](Len(dispatched) + (IF rpc = "onEvent" THEN 1 ELSE 0)
              = Len(accepted) - Len(m_que))
    /\ [][Len(dispatched') /= Len(dispatched)
          => (/\ rpc = "onEvent"
              /\ dispatched' = Append(dispatched, dispatched'[Len(dispatched')])
              /\ dispatched'[Len(dispatched')].cEvent = msg)]_vars
    /\ [][Len(m_que') < Len(m_que) => (rpc = "deq" /\ fnHandler = NoHandler)]_vars
    /\ [][(rpc /= "deq" /\ rpc' = "deq") => (rpc = "top" /\ m_bRunning)]_vars
    /\ [][(rpc = "top" /\ rpc' /= "top")
          => rpc' = IF m_bRunning THEN "deq" ELSE "exited"]_vars

\* C29 witness: two messages were accepted; the loop took the first and its
\* handler ran; Stop cleared the flag meanwhile, so the next loop test ended
\* Run with the second message still queued and never passed to the callback.
C29_Witness ==
    /\ rpc = "exited"
    /\ Len(accepted) = 2
    /\ Len(dispatched) = 1
    /\ dispatched[1].fnHandler /= NoHandler
    /\ dispatched[1].cEvent = accepted[1]
    /\ m_que = <<accepted[2]>>

(***************************************************************************)
(* Claims about vRemoveTimer, checked under SpecTimers.                    *)
(***************************************************************************)
\* C30: a backing thread removes from the registry only its own entry: the
\* vRemoveTimer of a thread changes the entry under its id only if that entry
\* holds the thread itself, so the entry of a timer registered later under
\* the same id survives the wake-up of an earlier one.
C30_RemovesOnlyOwnEntry ==
    [][\A th \in TimerThreads :
          TimerRemove(th)
          => \A t \in TimerIds :
                 m_mapTimers'[t] /= m_mapTimers[t] => m_mapTimers[t] = th]_vars

(***************************************************************************)
(* Claims about the lifetime of TimerManager, checked under SpecTimerLife. *)
(***************************************************************************)
\* C31: no backing thread reads or writes TimerManager state after the
\* manager has been destroyed. Every step a backing thread takes from its
\* sleep (the load of m_bShutdown), from before Post (m_wpReceiver) and from
\* before vRemoveTimer (m_mtxTimers, m_mapTimers) goes through the manager, so
\* each such step is taken while the manager exists.
C31_NoAccessAfterDestroy ==
    [][\A th \in TimerThreads :
          (thr[th].pc \in {"sleep", "post", "remove"} /\ thr'[th].pc /= thr[th].pc)
          => tmAlive]_vars

(***************************************************************************)
(* Claims about delivered signals and the wake signal, under SpecWatch.    *)
(***************************************************************************)
\* C32: a delivered signal is not lost to the wake signal. Once the system's
\* handler has stored a registered signal number in the pending slot, the
\* only step that takes it out of the slot is the poll of the watch thread's
\* Wait, which returns it (or the delivery of a further signal); no raise of
\* the wake signal by a registration or by Stop replaces it.
C32_DeliveredSignalNotLost ==
    [][(/\ g_snSignal \in RegisterableSignals \ {SIGUSR2}
        /\ g_snSignal' /= g_snSignal
        /\ lastOp'.op /= "vSignalHandler")
          => (swpc = "poll" /\ swpc' = "check" /\ swSignal' = g_snSignal)]_vars

(***************************************************************************)
(* Claims about what Signal::Wait returns, under SpecSignal.               *)
(***************************************************************************)
\* C33: Wait(signalSet) returns only a member of signalSet that was raised or
\* delivered after the call was entered. The numbers a handler is installed
\* for include every set passed to Wait so far, so the returned number is
\* among them; and the poll that directly follows the call's entry, before
\* any raise or delivery, does not return.
C33_WaitReturnsFreshMember ==
    [][\A w \in Waiters :
          (wpc[w] = "poll" /\ wpc'[w] = "idle")
          => (wret'[w] \in sigInstalled /\ lastOp.op /= "WaitEnter")]_vars

\* C33, as the code has it: Wait returns the non-zero number it finds in the
\* pending slot and leaves the slot empty. The number was stored by Raise
\* (any non-zero number) or by the delivery of a signal listed in this or an
\* earlier Wait; it need not be in the set of this call, and it may have been
\* stored before the call was entered.
C33_WaitReturnsPendingSlot ==
    [][\A w \in Waiters :
          (wpc[w] = "poll" /\ wpc'[w] = "idle")
          => /\ wret'[w] = g_snSignal
             /\ wret'[w] /= 0
             /\ wret'[w] \in sigInstalled \cup (RaiseInputs \ {0})
             /\ g_snSignal' = 0]_vars

\* A Wait for the wake signal alone has returned SIGTERM, raised before it.
C33_Witness ==
    \E w \in Waiters :
        /\ lastOp = Op("Wait", TRUE)
        /\ wret[w] = SIGTERM
        /\ SIGTERM \notin sigInstalled

(***************************************************************************)
(* Claims about the events left at Stop, checked under SpecStart.          *)
(***************************************************************************)
\* C34: every event whose Post returned true is passed to dispatch, those
\* still queued when Stop is called included: the Run loop has taken every
\* accepted event out of the queue when it exits, so none is left behind
\* that no thread will ever take.
C34_RunExitsDrained == (rpc = "exited") => (m_que = <<>>)

(***************************************************************************)
(* Claims about registration from inside a handler, under SpecNested.      *)
(***************************************************************************)
\* C35: a handler may register handlers while it is being dispatched: a
\* message handler that calls RegisterMessageHandler, a timer handler that
\* calls RegisterTimer, and a signal handler that calls RegisterTimer or
\* RegisterSignalHandler get their call back and go on, because the thread
\* in Run holds no registry lock while the handler runs.
C35_NestedRegistrationReturns ==
    [][(\/ msg.type = "Message" /\ lastOp'.op = "Handler:RegisterMessageHandler"
        \/ msg.type \in {"Timer", "Signal"} /\ lastOp'.op = "Handler:RegisterTimer"
        \/ msg.type = "Signal" /\ lastOp'.op = "Handler:RegisterSignalHandler")
          => (RunHoldsNoLock /\ rpc' = "handler" /\ lastOp'.ok)]_vars

(***************************************************************************)
(* Claims about a shut-down queue under a loop whose predicate holds,      *)
(* checked under SpecWorker.                                               *)
(***************************************************************************)
\* C36: Run returns once its queue has been shut down and drained, whatever
\* the continue predicate says: from its loop test the thread does not go
\* into another Deq on a queue that is shut down and empty, where Deq fails
\* at once.
C36_RunEndsOnShutdown ==
    [][(dpc = "top" /\ m_bShutdown /\ m_que = <<>>) => dpc' /= "deq"]_vars

\* C37: a WorkerThread can be restarted: whenever the worker has been started
\* on its engine and no Stop is in progress, after an earlier Stop as well,
\* Post on the engine returns true.
C37_RestartedWorkerAccepts ==
    [][(/\ lastOp'.op = "Enq"
        /\ m_spMessageDriven /\ m_bRunningWorker /\ ctl = "idle")
          => lastOp'.ok]_vars

(***************************************************************************)
(* Claims about several consumers of one queue, checked under SpecQueueCv. *)
(***************************************************************************)
\* The threads in Deq that are not blocked unnotified: holding the lock, or
\* notified and about to take it.
Awake ==
    {c \in Consumers :
        cpc[c] = "locked" \/ (cpc[c] = "blocked" /\ c \notin cvWaiting)}

\* C38: with several threads in Deq at once, the items handed out so far,
\* followed by the items still queued, are exactly the items accepted so far,
\* so that each accepted item is handed out by at most one Deq call and none
\* is lost; a Deq call hands out exactly the queue's front item; and no
\* wake-up is lost: while some thread is blocked in Deq without having been
\* notified, the queue is not shut down and every queued item has a thread
\* that is awake in Deq to take it.
C38_ConcurrentDeq ==
    /\ [](returned \o m_que = accepted)
    /\ [](Len(returned) + Len(m_que) = Len(accepted))
    /\ [][\A c \in Consumers :
              (cpc[c] /= "idle" /\ cpc'[c] = "idle" /\ lastOp'.ok)
              => /\ m_que /= <<>>
                 /\ returned' = Append(returned, Head(m_que))
                 /\ m_que' = Tail(m_que)]_vars
    /\ [](cvWaiting /= {}
            => (~m_bShutdown /\ Len(m_que) <= Cardinality(Awake)))
    /\ [](m_mutexQue = "deq" <=> \E c \in Consumers : cpc[c] = "locked")
    /\ [](Cardinality({c \in Consumers : cpc[c] = "locked"}) <= 1)

\* C38 witness: both consumers are blocked in Deq at once, one item has
\* already been handed out, another is queued, and notify_one has unblocked
\* one of the two consumers for it while the other stays blocked.
C38_Witness ==
    /\ Len(returned) = 1
    /\ Len(m_que) = 1
    /\ ~m_bShutdown
    /\ \E c1, c2 \in Consumers :
          /\ cpc[c1] = "blocked" /\ c1 \in cvWaiting
          /\ cpc[c2] = "blocked" /\ c2 \notin cvWaiting
          /\ cTimeout[c1] = 0
    /\ lastOp = Op("Enq", TRUE)

(***************************************************************************)
(* Claims about what a registration leaves alone, under SpecActor.         *)
(***************************************************************************)
\* C39: RegisterMessageHandler and RegisterTimer change only their own
\* registry: they leave the pending-signal slot, the other two registries,
\* the queue and the running flag as they were.
C39_RegisterChangesOwnRegistryOnly ==
    /\ [][\A n \in EventNames, fnH \in Handlers :
              RegisterMessageHandler(n, fnH)
              => UNCHANGED <<g_snSignal, m_mapTimerHandler, m_mapSignalHandler,
                             qvars, m_bRunning>>]_vars
    /\ [][\A t \in TimerIds, fnH \in TimerSignalHandlers :
              RegisterTimer(t, fnH)
              => UNCHANGED <<g_snSignal, m_mapMessageHandler, m_mapSignalHandler,
                             qvars, m_bRunning>>]_vars

\* C39, as the code has it: RegisterTimer changes only the timer registry,
\* and there only the entry under its id. RegisterMessageHandler changes
\* only the entry under its name in the message registry and, in addition,
\* raises the wake signal, so that the pending slot holds SIGUSR2 after it;
\* the other two registries, the queue and the running flag stay as they were.
C39_RegisterFrame ==
    /\ [][\A n \in EventNames, fnH \in Handlers :
              RegisterMessageHandler(n, fnH)
              => /\ g_snSignal' = SIGUSR2
                 /\ \A k \in EventNames \ {n} :
                        m_mapMessageHandler'[k] = m_mapMessageHandler[k]
                 /\ UNCHANGED <<m_mapTimerHandler, m_mapSignalHandler, qvars,
                                m_bRunning>>]_vars
    /\ [][\A t \in TimerIds, fnH \in TimerSignalHandlers :
              RegisterTimer(t, fnH)
              => /\ \A k \in TimerIds \ {t} :
                        m_mapTimerHandler'[k] = m_mapTimerHandler[k]
                 /\ UNCHANGED <<g_snSignal, m_mapMessageHandler,
                                m_mapSignalHandler, qvars, m_bRunning>>]_vars

\* C39 witness: a message handler and a timer handler are registered and no
\* signal handler ever was, yet the pending slot holds the wake signal: the
\* registration of the message handler raised it.
C39_Witness ==
    /\ g_snSignal = SIGUSR2
    /\ regpc = "idle"
    /\ ScanList(m_mapSignalHandler) = {SIGUSR2}
    /\ \E n \in EventNames : m_mapMessageHandler[n] /= NoHandler
    /\ \E t \in TimerIds : m_mapTimerHandler[t] /= NoHandler

(***************************************************************************)
(* Claims about Post from inside a handler, checked under SpecStart.       *)
(***************************************************************************)
\* C40: the queue's lock is not held while the per-event callback runs, so a
\* handler can call Post on its own actor: while a handler runs, Post is
\* possible (it does not block on the lock); if the queue is not shut down it
\* returns true, the event goes to the tail of the queue behind every event
\* queued before it, the handler goes on and nothing is dispatched by that
\* step; and events reach dispatch in the order in which they were accepted,
\* one at a time, so the posted event is dispatched after the current handler
\* has returned and after every event that was queued before it.
C40_PostFromHandler ==
    /\ [](rpc \in {"onEvent", "handler", "catch"} => m_mutexQue = "")
    /\ []((rpc = "handler" /\ Len(accepted) < MaxPosts)
            => ENABLED (\E m \in MessageInputs : Post(MessageEvent(m[1], m[2]))))
    /\ [][(rpc = "handler" /\ lastOp'.op = "Enq")
            => /\ lastOp'.ok = ~m_bShutdown
               /\ lastOp'.ok => /\ Len(accepted') = Len(accepted) + 1
                                /\ m_que' = Append(m_que, accepted'[Len(accepted')])
               /\ rpc' = "handler"
               /\ UNCHANGED <<dispatched, fnHandler, msg>>]_vars
    /\ [](/\ Len(dispatched) <= Len(accepted)
          /\ \A i \in 1..Len(dispatched) : dispatched[i].cEvent = accepted[i])
    /\ [][HandlerStarts => (rpc /= "handler" /\ fnHandler = NoHandler)]_vars

\* C40 witness: while the handler of the first event runs, a second event was
\* posted and accepted; it is queued and not yet dispatched.
C40_Witness ==
    /\ rpc = "handler"
    /\ lastOp = Op("Enq", TRUE)
    /\ Len(accepted) = 2
    /\ Len(dispatched) = 1
    /\ dispatched[1].cEvent = accepted[1]
    /\ m_que = <<accepted[2]>>
    /\ ~m_bShutdown

====
